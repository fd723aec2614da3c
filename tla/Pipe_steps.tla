------------------------------ MODULE Pipe_steps ------------------------------
(***************************************************************************)
(* What Pipe's operators do to a list of segments, and to the bytes in it. *)
(*                                                                         *)
(* L[lo], ..., L[hi] are the segments of the list, base is the number of   *)
(* the byte before its first (the running indexes start again when the     *)
(* list was empty), and HasData(q, r, h, m, w) says that the pipe q has    *)
(* written w bytes of the stream, flushed m of them and given h of those   *)
(* to the reader r for good.  One lemma for each critical section says how *)
(* it changes h, m and w.                                                  *)
(***************************************************************************)
EXTENDS Pipe_lemmas

-----------------------------------------------------------------------------
(* The list.                                                               *)

\* The types of the fields of a pipe.
LEMMA PipeFields ==
    ASSUME NEW q \in PipeType
    PROVE  /\ SegmentsTyped(q) /\ q.allocated \subseteq Segments /\ q.pool \in Seq(Segments)
           /\ q.notConsumed \in Nat /\ q.notFlushed \in Nat /\ q.buffered \in Nat /\ q.lastExamined \in Nat \cup {-1}
           /\ q.readingHead \in PositionType /\ q.readingTail \in PositionType /\ q.writingHead \in Pointers
           /\ q.memory \in MemoryType /\ q.writing \in BOOLEAN
           /\ q.writerComplete \in BOOLEAN /\ q.readerComplete \in BOOLEAN
BY DEF PipeType, SegmentsTyped, Pointers

\* Segments with the same fields.
LEMMA SameSegment ==
    ASSUME NEW x \in SegmentType, NEW y \in SegmentType,
           x.memory = y.memory, x.next = y.next, x.end = y.end, x.running = y.running
    PROVE  x = y
<1>1. x = [memory |-> x.memory, next |-> x.next, end |-> x.end, running |-> x.running]
  BY DEF SegmentType
<1>2. y = [memory |-> y.memory, next |-> y.next, end |-> y.end, running |-> y.running]
  BY DEF SegmentType
<1> QED BY <1>1, <1>2

\* A segment with one field changed.
LEMMA SegmentWith ==
    ASSUME NEW x \in SegmentType
    PROVE  /\ \A n \in Nat : LET y == [x EXCEPT !.end = n] IN
               /\ y \in SegmentType /\ y.memory = x.memory /\ y.next = x.next /\ y.end = n /\ y.running = x.running
           /\ \A n \in Seq(Nat) : LET y == [x EXCEPT !.memory = n] IN
               /\ y \in SegmentType /\ y.memory = n /\ y.next = x.next /\ y.end = x.end /\ y.running = x.running
           /\ \A n \in Pointers : LET y == [x EXCEPT !.next = n] IN
               /\ y \in SegmentType /\ y.memory = x.memory /\ y.next = n /\ y.end = x.end /\ y.running = x.running
           /\ \A n \in Nat : LET y == [x EXCEPT !.running = n] IN
               /\ y \in SegmentType /\ y.memory = x.memory /\ y.next = x.next /\ y.end = x.end /\ y.running = n
BY DEF SegmentType, Pointers

\* The last segment is replaced by u, which holds the stream's next bytes.
LastBecomes(q, r, L, hi, base, u) ==
    /\ q.writingHead = L[hi] /\ r.writingHead = L[hi] /\ r.buffered \in Nat
    /\ u \in SegmentType /\ r.segments = [q.segments EXCEPT ![L[hi]] = u]
    /\ u.next = q.segments[L[hi]].next /\ u.running = q.segments[L[hi]].running
    /\ u.end + r.buffered <= Len(u.memory)
    /\ \A k \in 1 .. u.end + r.buffered : u.memory[k] = base + u.running + k

\* A list whose last segment changes is still one.
LEMMA StoredLast ==
    ASSUME NEW q, NEW L, NEW lo, NEW hi, NEW base, Stored(q, L, lo, hi, base), lo <= hi,
           NEW r, NEW u, LastBecomes(q, r, L, hi, base, u)
    PROVE  /\ Stored(r, L, lo, hi, base)
           /\ r.segments[L[hi]] = u /\ Filled(r, L[hi]) = u.end + r.buffered
           /\ \A i \in lo .. hi : i # hi => r.segments[L[i]] = q.segments[L[i]]
<1>0. /\ q.writingHead = L[hi] /\ r.writingHead = L[hi] /\ r.buffered \in Nat
      /\ u \in SegmentType /\ r.segments = [q.segments EXCEPT ![L[hi]] = u]
      /\ u.next = q.segments[L[hi]].next /\ u.running = q.segments[L[hi]].running
      /\ u.end + r.buffered <= Len(u.memory)
      /\ \A k \in 1 .. u.end + r.buffered : u.memory[k] = base + u.running + k
  BY DEF LastBecomes
<1> DEFINE s == L[hi]
<1>1. s \in Segments /\ hi \in lo .. hi /\ q.segments \in [Segments -> SegmentType] /\ lo \in Nat /\ hi \in Nat
  BY DEF Stored, Linked, SegmentsTyped
<1>2. u.memory \in Seq(Nat) /\ u.end \in Nat /\ u.running \in Nat
  BY <1>0 DEF SegmentType
<1>3. /\ r.segments \in [Segments -> SegmentType] /\ r.segments[s] = u
      /\ \A x \in Segments : x # s => r.segments[x] = q.segments[x]
  BY <1>0, <1>1
<1>4. ASSUME NEW i \in lo .. hi
      PROVE  L[i] \in Segments /\ (L[i] = s <=> i = hi) /\ r.segments[L[i]] = IF i = hi THEN u ELSE q.segments[L[i]]
  <2>1. L[i] \in Segments /\ \A j \in lo .. hi : L[i] = L[j] <=> i = j
    BY StoredFacts
  <2> QED BY <1>1, <1>3, <2>1
<1> HIDE DEF s
<1>5. Filled(r, s) = u.end + r.buffered
  BY <1>0, <1>3 DEF Filled, s
<1>6. \A i \in lo .. hi : i # hi => Filled(r, L[i]) = Filled(q, L[i])
  BY <1>0, <1>4 DEF Filled, s
<1>7. Linked(r, L, lo, hi)
  <2>1. \A i \in lo .. hi : L[i] \in Segments /\ r.segments[L[i]].next = IF i = hi THEN Null ELSE L[i + 1]
    BY <1>0, <1>1, <1>4 DEF Stored, Linked, s
  <2>2. \A i, j \in lo .. hi : L[i] = L[j] => i = j
    BY DEF Stored, Linked
  <2>3. \A x \in Segments : (\A i \in lo .. hi : L[i] # x) => r.segments[x] = EmptySegment
    BY <1>1, <1>3 DEF Stored, Linked, s
  <2> QED BY <2>1, <2>2, <2>3 DEF Linked
<1>8. Indexed(r, L, lo, hi)
  <2> SUFFICES ASSUME NEW i \in lo .. hi, NEW j \in lo .. hi, i < j
               PROVE  /\ r.segments[L[i]].running + r.segments[L[i]].end <= r.segments[L[j]].running
                      /\ j = i + 1 => r.segments[L[i]].running + r.segments[L[i]].end = r.segments[L[j]].running
    BY DEF Indexed
  <2>1. i # hi
    BY <1>1
  <2>2. r.segments[L[i]] = q.segments[L[i]] /\ r.segments[L[j]].running = q.segments[L[j]].running
    BY <1>0, <1>4, <2>1
  <2> QED BY <2>2 DEF Stored, Indexed
<1>9. Filling(r, L, lo, hi, base)
  <2> SUFFICES ASSUME NEW i \in lo .. hi
               PROVE  /\ Filled(r, L[i]) <= Len(r.segments[L[i]].memory)
                      /\ \A k \in 1 .. Filled(r, L[i]) : r.segments[L[i]].memory[k] = Number(r, base, L[i], k)
    BY DEF Filling
  <2>1. CASE i = hi
    BY <1>0, <1>3, <1>5, <2>1 DEF Number, s
  <2>2. CASE i # hi
    <3>1. r.segments[L[i]] = q.segments[L[i]] /\ Filled(r, L[i]) = Filled(q, L[i])
      BY <1>4, <1>6, <2>2
    <3> QED BY <3>1 DEF Stored, Filling, Number
  <2> QED BY <2>1, <2>2
<1>10. Stored(r, L, lo, hi, base)
  BY <1>0, <1>3, <1>7, <1>8, <1>9 DEF Stored, SegmentsTyped
<1> QED BY <1>3, <1>4, <1>5, <1>10 DEF s

\* A segment s that was in no list is appended.
Longer(L, hi, s) == [L EXCEPT ![hi + 1] = s]

Appended(q, r, L, lo, hi, s, memory) ==
    /\ q.writingHead = (IF lo <= hi THEN L[hi] ELSE Null) /\ q.buffered = 0
    /\ s \in Segments /\ \A i \in lo .. hi : L[i] # s
    /\ memory \in Seq(Nat)
    /\ r.segments \in [Segments -> SegmentType] /\ r.writingHead = s /\ r.buffered = 0
    /\ \A x \in Segments : /\ r.segments[x].memory = IF x = s THEN memory ELSE q.segments[x].memory
                           /\ r.segments[x].end = q.segments[x].end
                           /\ r.segments[x].next = IF lo <= hi /\ x = L[hi] THEN s ELSE q.segments[x].next
                           /\ r.segments[x].running =
                                IF lo <= hi /\ x = s THEN q.segments[L[hi]].running + q.segments[L[hi]].end
                                ELSE q.segments[x].running

\* A list with an empty segment behind its last is one.
LEMMA StoredAppend ==
    ASSUME NEW q, NEW L, NEW lo, NEW hi, NEW base, Stored(q, L, lo, hi, base), lo <= hi + 1,
           NEW r, NEW s, NEW memory, Appended(q, r, L, lo, hi, s, memory)
    PROVE  LET M == Longer(L, hi, s)
           IN  /\ Stored(r, M, lo, hi + 1, base) /\ M[hi + 1] = s /\ \A i \in lo .. hi : M[i] = L[i]
               /\ Filled(r, s) = 0 /\ r.segments[s].end = 0 /\ r.segments[s].memory = memory
               /\ r.segments[s].running = IF lo <= hi THEN q.segments[L[hi]].running + q.segments[L[hi]].end ELSE 0
               /\ \A i \in lo .. hi : /\ r.segments[L[i]].running = q.segments[L[i]].running
                                      /\ r.segments[L[i]].end = q.segments[L[i]].end
                                      /\ r.segments[L[i]].memory = q.segments[L[i]].memory
<1> USE DEF Appended
<1> DEFINE top == hi + 1
           M == Longer(L, hi, s)
<1>1. /\ lo \in Nat /\ hi \in Nat /\ top \in Nat /\ L \in Lists /\ base \in Nat
      /\ q.segments \in [Segments -> SegmentType]
  BY DEF Stored, SegmentsTyped
<1>2. M \in Lists /\ M[top] = s /\ \A i \in lo .. hi : M[i] = L[i] /\ i # top /\ i \in lo .. top
  BY <1>1 DEF Lists, Pointers, Longer
<1>3. \A i \in lo .. top : i = top \/ i \in lo .. hi
  BY <1>1
<1> HIDE DEF M
<1>4. q.segments[s] = EmptySegment
  BY DEF Stored, Linked
<1>5. q.segments[s].next = Null /\ q.segments[s].end = 0 /\ q.segments[s].running = 0
  BY <1>4 DEF EmptySegment
<1>6. ASSUME NEW i \in lo .. hi
      PROVE  /\ L[i] \in Segments /\ L[i] # s
             /\ q.segments[L[i]].running \in Nat /\ q.segments[L[i]].end \in Nat
             /\ r.segments[L[i]].running = q.segments[L[i]].running
             /\ r.segments[L[i]].end = q.segments[L[i]].end
             /\ r.segments[L[i]].memory = q.segments[L[i]].memory
             /\ r.segments[L[i]].next = M[i + 1]
             /\ Filled(r, L[i]) = q.segments[L[i]].end /\ Filled(q, L[i]) = q.segments[L[i]].end
  <2>1. /\ L[i] \in Segments /\ q.segments[L[i]].running \in Nat /\ q.segments[L[i]].end \in Nat
        /\ q.segments[L[i]].next = Behind(L, i + 1, hi) /\ \A j \in lo .. hi : L[i] = L[j] <=> i = j
    BY StoredFacts, SMTT(30)
  <2>2. L[i] # s /\ lo <= hi /\ hi \in lo .. hi
    BY <1>1
  <2>3. /\ r.segments[L[i]].running = q.segments[L[i]].running
        /\ r.segments[L[i]].end = q.segments[L[i]].end
        /\ r.segments[L[i]].memory = q.segments[L[i]].memory
        /\ r.segments[L[i]].next = IF L[i] = L[hi] THEN s ELSE q.segments[L[i]].next
    BY <2>1, <2>2
  <2>4. r.segments[L[i]].next = M[i + 1]
    <3>1. CASE i = hi
      BY <1>2, <2>3, <3>1
    <3>2. CASE i # hi
      <4>1. i + 1 \in lo .. hi /\ i + 1 # hi + 1
        BY <1>1, <3>2
      <4>2. r.segments[L[i]].next = L[i + 1]
        BY <2>1, <2>2, <2>3, <3>2, <4>1 DEF Behind
      <4> QED BY <1>2, <4>1, <4>2
    <3> QED BY <3>1, <3>2
  <2>5. Filled(r, L[i]) = q.segments[L[i]].end /\ Filled(q, L[i]) = q.segments[L[i]].end
    BY <2>1, <2>2, <2>3 DEF Filled
  <2> QED BY <2>1, <2>2, <2>3, <2>4, <2>5
<1>7. r.segments[s].end = 0 /\ r.segments[s].memory = memory /\ r.segments[s].next = Null /\ Filled(r, s) = 0
  <2>1. lo <= hi => s # L[hi]
    BY <1>1
  <2> QED BY <1>5, <2>1 DEF Filled
<1>8. r.segments[s].running = IF lo <= hi THEN q.segments[L[hi]].running + q.segments[L[hi]].end ELSE 0
  BY <1>5
<1>9. Linked(r, M, lo, top)
  <2>1. ASSUME NEW i \in lo .. top
        PROVE  M[i] \in Segments /\ r.segments[M[i]].next = IF i = top THEN Null ELSE M[i + 1]
    <3>1. CASE i = top
      BY <1>2, <1>7, <3>1
    <3>2. CASE i # top
      <4>1. i \in lo .. hi
        BY <1>3, <3>2
      <4> QED BY <1>2, <1>6, <3>2, <4>1
    <3> QED BY <3>1, <3>2
  <2>2. ASSUME NEW i \in lo .. top, NEW j \in lo .. top, M[i] = M[j] PROVE i = j
    <3>1. \A x, y \in lo .. hi : L[x] = L[y] => x = y
      BY DEF Stored, Linked
    <3> QED BY <1>2, <1>3, <2>2, <3>1
  <2>3. ASSUME NEW x \in Segments, \A i \in lo .. top : M[i] # x PROVE r.segments[x] = EmptySegment
    <3>1. top \in lo .. top
      BY <1>1
    <3>2. x # s /\ \A i \in lo .. hi : L[i] # x
      BY <1>2, <2>3, <3>1
    <3>3. q.segments[x] = EmptySegment
      BY <3>2 DEF Stored, Linked
    <3>4. lo <= hi => x # L[hi]
      BY <1>1, <3>2
    <3>5. r.segments[x] \in SegmentType /\ q.segments[x] \in SegmentType
      BY <1>1
    <3>6. /\ r.segments[x].memory = q.segments[x].memory /\ r.segments[x].end = q.segments[x].end
          /\ r.segments[x].next = q.segments[x].next /\ r.segments[x].running = q.segments[x].running
      BY <3>2, <3>4
    <3>7. r.segments[x] = q.segments[x]
      BY <3>5, <3>6, SameSegment
    <3> QED BY <3>3, <3>7
  <2> QED BY <2>1, <2>2, <2>3 DEF Linked
<1>10. Indexed(r, M, lo, top)
  <2> SUFFICES ASSUME NEW i \in lo .. top, NEW j \in lo .. top, i < j
               PROVE  /\ r.segments[M[i]].running + r.segments[M[i]].end <= r.segments[M[j]].running
                      /\ j = i + 1 => r.segments[M[i]].running + r.segments[M[i]].end = r.segments[M[j]].running
    BY DEF Indexed
  <2>1. i \in lo .. hi /\ hi \in lo .. hi /\ lo <= hi
    BY <1>1
  <2>2. \A x, y \in lo .. hi : x < y =>
          /\ q.segments[L[x]].running + q.segments[L[x]].end <= q.segments[L[y]].running
          /\ y = x + 1 => q.segments[L[x]].running + q.segments[L[x]].end = q.segments[L[y]].running
    BY DEF Stored, Indexed
  <2>3. CASE j \in lo .. hi
    BY <1>2, <1>6, <2>1, <2>2, <2>3
  <2>4. CASE j = top
    <3>1. r.segments[M[j]].running = q.segments[L[hi]].running + q.segments[L[hi]].end
      BY <1>2, <1>8, <2>1, <2>4
    <3>2. q.segments[L[hi]].running \in Nat /\ q.segments[L[hi]].end \in Nat /\ q.segments[L[i]].running \in Nat /\ q.segments[L[i]].end \in Nat
      BY <1>6, <2>1
    <3>3. r.segments[M[i]].running = q.segments[L[i]].running /\ r.segments[M[i]].end = q.segments[L[i]].end
      BY <1>2, <1>6, <2>1
    <3>4. CASE i = hi
      BY <3>1, <3>2, <3>3, <3>4
    <3>5. CASE i # hi
      <4>1. i < hi /\ j # i + 1
        BY <1>1, <2>1, <2>4, <3>5
      <4>2. q.segments[L[i]].running + q.segments[L[i]].end <= q.segments[L[hi]].running
        BY <2>1, <2>2, <4>1
      <4>3. q.segments[L[i]].running + q.segments[L[i]].end <= q.segments[L[hi]].running + q.segments[L[hi]].end
        <5>1. \A a, b, x, y \in Nat : a + b <= x => a + b <= x + y
          OBVIOUS
        <5> QED BY <3>2, <4>2, <5>1
      <4> QED BY <3>1, <3>3, <4>1, <4>3
    <3> QED BY <3>4, <3>5
  <2> QED BY <1>3, <2>3, <2>4
<1>11. Filling(r, M, lo, top, base)
  <2> SUFFICES ASSUME NEW i \in lo .. top
               PROVE  /\ Filled(r, M[i]) <= Len(r.segments[M[i]].memory)
                      /\ \A k \in 1 .. Filled(r, M[i]) : r.segments[M[i]].memory[k] = Number(r, base, M[i], k)
    BY DEF Filling
  <2>1. CASE i = top
    <3>1. Len(memory) \in Nat
      BY LenProperties
    <3> QED BY <1>2, <1>7, <2>1, <3>1
  <2>2. CASE i \in lo .. hi
    <3>1. /\ M[i] = L[i] /\ Filled(r, L[i]) = Filled(q, L[i])
          /\ r.segments[L[i]].memory = q.segments[L[i]].memory /\ r.segments[L[i]].running = q.segments[L[i]].running
      BY <1>2, <1>6, <2>2
    <3>2. /\ Filled(q, L[i]) <= Len(q.segments[L[i]].memory)
          /\ \A k \in 1 .. Filled(q, L[i]) : q.segments[L[i]].memory[k] = Number(q, base, L[i], k)
      BY <2>2 DEF Stored, Filling
    <3> QED BY <3>1, <3>2 DEF Number
  <2> QED BY <1>3, <2>1, <2>2
<1>12. Stored(r, M, lo, top, base)
  BY <1>1, <1>2, <1>9, <1>10, <1>11 DEF Stored, SegmentsTyped
<1> QED BY <1>2, <1>6, <1>7, <1>8, <1>12 DEF M

\* The first segments are released: the list starts at L[c].
Dropped(q, r, L, lo, hi, c) ==
    /\ r.segments = [s \in Segments |-> IF s \in {L[i] : i \in lo .. c - 1} THEN EmptySegment ELSE q.segments[s]]
    /\ r.buffered = q.buffered
    /\ c <= hi => r.writingHead = q.writingHead

\* A list without its first segments is one.
LEMMA StoredDrop ==
    ASSUME NEW q, NEW L, NEW lo, NEW hi, NEW base, Stored(q, L, lo, hi, base), lo <= hi + 1,
           NEW c \in lo .. hi + 1, NEW r, Dropped(q, r, L, lo, hi, c)
    PROVE  /\ Stored(r, L, c, hi, base)
           /\ \A i \in c .. hi : r.segments[L[i]] = q.segments[L[i]] /\ Filled(r, L[i]) = Filled(q, L[i])
<1> USE DEF Dropped
<1>1. lo \in Nat /\ hi \in Nat /\ c \in Nat /\ lo <= c /\ c <= hi + 1 /\ L \in Lists /\ base \in Nat /\ q.segments \in [Segments -> SegmentType]
  BY DEF Stored, SegmentsTyped
<1>2. EmptySegment \in SegmentType
  <2>1. <<>> \in Seq(Nat)
    BY EmptySeq
  <2> QED BY <2>1 DEF EmptySegment, SegmentType
<1>3. r.segments \in [Segments -> SegmentType]
  BY <1>1, <1>2
<1>4. ASSUME NEW i \in c .. hi
      PROVE  /\ i \in lo .. hi /\ L[i] \in Segments /\ r.segments[L[i]] = q.segments[L[i]]
             /\ Filled(r, L[i]) = Filled(q, L[i])
  <2>1. i \in lo .. hi /\ c <= hi /\ \A j \in lo .. c - 1 : j \in lo .. hi /\ j # i
    BY <1>1
  <2>2. L[i] \in Segments /\ \A j \in lo .. hi : L[i] = L[j] <=> i = j
    BY <2>1, StoredFacts
  <2>3. L[i] \notin {L[j] : j \in lo .. c - 1}
    BY <2>1, <2>2
  <2>4. r.segments[L[i]] = q.segments[L[i]]
    BY <2>2, <2>3
  <2> QED BY <2>1, <2>2, <2>4 DEF Filled
<1>5. Linked(r, L, c, hi)
  <2>1. \A i \in c .. hi : L[i] \in Segments /\ r.segments[L[i]].next = IF i = hi THEN Null ELSE L[i + 1]
    BY <1>4 DEF Stored, Linked
  <2>2. \A i, j \in c .. hi : L[i] = L[j] => i = j
    BY <1>4 DEF Stored, Linked
  <2>3. ASSUME NEW x \in Segments, \A i \in c .. hi : L[i] # x PROVE r.segments[x] = EmptySegment
    <3>1. CASE x \in {L[i] : i \in lo .. c - 1}
      BY <3>1
    <3>2. CASE x \notin {L[i] : i \in lo .. c - 1}
      <4>1. \A i \in lo .. hi : i \in lo .. c - 1 \/ i \in c .. hi
        BY <1>1
      <4>2. \A i \in lo .. hi : L[i] # x
        BY <2>3, <3>2, <4>1
      <4> QED BY <3>2, <4>2 DEF Stored, Linked
    <3> QED BY <3>1, <3>2
  <2> QED BY <2>1, <2>2, <2>3 DEF Linked
<1>6. Indexed(r, L, c, hi)
  BY <1>4 DEF Stored, Indexed
<1>7. Filling(r, L, c, hi, base)
  BY <1>4, SMTT(30) DEF Stored, Filling, Number
<1> QED BY <1>1, <1>3, <1>4, <1>5, <1>6, <1>7 DEF Stored, SegmentsTyped

-----------------------------------------------------------------------------
(* The pool.                                                               *)

\* A segment is in the list or in the pool, none is in both.
Pooled(q, L, lo, hi) ==
    /\ q.allocated = {L[i] : i \in lo .. hi} \cup ToSet(q.pool)
    /\ {L[i] : i \in lo .. hi} \cap ToSet(q.pool) = {}
    /\ IsInjective(q.pool) /\ Len(q.pool) <= MaximumSegmentPoolSize

\* The segments of a piece of a list, none twice.
LEMMA PieceSet ==
    ASSUME NEW L \in Lists, NEW a \in Nat, NEW b \in Nat, a <= b,
           \A i \in a .. b - 1 : L[i] \in Segments, \A i, j \in a .. b - 1 : L[i] = L[j] => i = j
    PROVE  /\ ToSet(Piece(L, a, b)) = {L[i] : i \in a .. b - 1}
           /\ Piece(L, a, b) \in Seq(Segments) /\ Len(Piece(L, a, b)) = b - a /\ IsInjective(Piece(L, a, b))
<1> DEFINE s == Piece(L, a, b)
<1>1. /\ s \in Seq(Pointers) /\ Len(s) = b - a /\ DOMAIN s = 1 .. b - a
      /\ \A k \in 1 .. b - a : s[k] = L[a + k - 1] /\ a + k - 1 \in a .. b - 1
  <2>1. s \in Seq(Pointers) /\ Len(s) = b - a /\ \A k \in 1 .. b - a : s[k] = L[a + k - 1]
    BY PieceSeq
  <2>2. DOMAIN s = 1 .. b - a
    BY <2>1, LenProperties
  <2> QED BY <2>1, <2>2
<1> HIDE DEF s
<1>2. \A i \in a .. b - 1 : i - a + 1 \in 1 .. b - a /\ s[i - a + 1] = L[i]
  BY <1>1
<1>3. ToSet(s) = {L[i] : i \in a .. b - 1}
  <2>1. ASSUME NEW k \in 1 .. b - a PROVE s[k] \in {L[i] : i \in a .. b - 1}
    BY <1>1
  <2>2. ASSUME NEW i \in a .. b - 1 PROVE L[i] \in {s[k] : k \in 1 .. b - a}
    BY <1>2
  <2>3. ToSet(s) = {s[k] : k \in 1 .. b - a}
    BY <1>1 DEF ToSet
  <2> QED BY <2>1, <2>2, <2>3
<1>4. s \in Seq(Segments)
  <2>1. s \in [1 .. b - a -> Segments] /\ b - a \in Nat
    <3>1. s = [k \in 1 .. b - a |-> s[k]]
      BY DEF s, Piece
    <3> QED BY <1>1, <3>1
  <2> QED BY <2>1, IsSeq
<1>5. IsInjective(s)
  BY <1>1, SMTT(30) DEF IsInjective
<1> QED BY <1>1, <1>3, <1>4, <1>5 DEF s

\* What FreeSegments and the allocation leave alone.
SameRest(r, q) ==
    /\ r.notConsumed = q.notConsumed /\ r.notFlushed = q.notFlushed /\ r.buffered = q.buffered
    /\ r.lastExamined = q.lastExamined /\ r.readingHead = q.readingHead /\ r.readingTail = q.readingTail
    /\ r.writingHead = q.writingHead /\ r.memory = q.memory /\ r.writing = q.writing
    /\ r.writerComplete = q.writerComplete /\ r.readerComplete = q.readerComplete

\* The first segments of the list go to the pool or back to the allocator.
LEMMA FreeSegmentsIs ==
    ASSUME NEW q \in PipeType, NEW L, NEW lo, NEW hi, NEW base, Stored(q, L, lo, hi, base), lo <= hi + 1,
           Pooled(q, L, lo, hi), NEW c \in lo .. hi + 1, NEW allow \in BOOLEAN
    PROVE  LET r == FreeSegments(q, Piece(L, lo, c), allow)
           IN  /\ r \in PipeType /\ SameRest(r, q) /\ Pooled(r, L, c, hi)
               /\ r.segments = [s \in Segments |-> IF s \in {L[i] : i \in lo .. c - 1} THEN EmptySegment
                                                   ELSE q.segments[s]]
<1> DEFINE list == Piece(L, lo, c)
           r == FreeSegments(q, list, allow)
           room == IF allow THEN MaximumSegmentPoolSize - Len(q.pool) ELSE 0
           k == IF room < Len(list) THEN room ELSE Len(list)
           kept == SubSeq(list, 1, k)
           dropped == {L[i] : i \in lo .. c - 1}
           others == {L[i] : i \in c .. hi}
           segments == [s \in Segments |-> IF s \in dropped THEN EmptySegment ELSE q.segments[s]]
           pool == q.pool \o kept
           allocated == q.allocated \ (dropped \ ToSet(kept))
<1>1. lo \in Nat /\ hi \in Nat /\ c \in Nat /\ lo <= c /\ c <= hi + 1 /\ L \in Lists /\ q.segments \in [Segments -> SegmentType]
  BY DEF Stored, SegmentsTyped
<1>2. /\ \A i \in lo .. c - 1 : i \in lo .. hi
      /\ \A i \in lo .. hi : i \in lo .. c - 1 \/ i \in c .. hi
      /\ \A i \in c .. hi : i \in lo .. hi /\ i \notin lo .. c - 1
  BY <1>1
<1>3. (\A i \in lo .. hi : L[i] \in Segments) /\ \A i, j \in lo .. hi : L[i] = L[j] => i = j
  BY DEF Stored, Linked
<1>4. ToSet(list) = dropped /\ list \in Seq(Segments) /\ Len(list) = c - lo /\ IsInjective(list)
  BY <1>1, <1>2, <1>3, PieceSet
<1>5. {L[i] : i \in lo .. hi} = dropped \cup others /\ dropped \cap others = {}
  BY <1>2, <1>3
<1>6. /\ q.pool \in Seq(Segments) /\ IsInjective(q.pool) /\ Len(q.pool) \in Nat /\ Len(q.pool) <= MaximumSegmentPoolSize
      /\ q.allocated = dropped \cup others \cup ToSet(q.pool) /\ (dropped \cup others) \cap ToSet(q.pool) = {}
      /\ q.allocated \subseteq Segments
  BY <1>5, PipeFields, LenProperties DEF Pooled
<1>7. k \in 0 .. Len(list) /\ Len(q.pool) + k <= MaximumSegmentPoolSize
  <2>1. MaximumSegmentPoolSize \in Nat
    BY SizesAssumption
  <2>2. c - lo \in Nat
    BY <1>1
  <2>3. Len(list) \in Nat
    BY <1>4, <2>2
  <2> DEFINE n == Len(list)
             used == Len(q.pool)
  <2>4. used \in Nat /\ used <= MaximumSegmentPoolSize /\ n \in Nat
    BY <1>6, <2>3
  <2> HIDE DEF list, n, used
  <2>5. room = (IF allow THEN MaximumSegmentPoolSize - used ELSE 0) /\ k = IF room < n THEN room ELSE n
    BY DEF n, used
  <2> HIDE DEF room, k
  <2>6. k \in 0 .. n /\ used + k <= MaximumSegmentPoolSize
    BY <2>1, <2>4, <2>5
  <2> QED BY <2>6 DEF n, used
<1> HIDE DEF list, dropped, others, room, k
<1>8. ToSet(q.pool) \cap ToSet(list) = {}
  BY <1>4, <1>6
<1>9. /\ pool \in Seq(Segments) /\ Len(pool) = Len(q.pool) + k /\ IsInjective(pool)
      /\ ToSet(pool) = ToSet(q.pool) \cup ToSet(kept) /\ ToSet(kept) \subseteq dropped
  BY <1>4, <1>6, <1>7, <1>8, PoolPut
<1> HIDE DEF kept, pool
<1>10. segments \in [Segments -> SegmentType]
  <2>1. EmptySegment \in SegmentType
    <3>1. <<>> \in Seq(Nat)
      BY EmptySeq
    <3> QED BY <3>1 DEF EmptySegment, SegmentType
  <2> QED BY <1>1, <2>1
<1>11. allocated = others \cup ToSet(pool) /\ others \cap ToSet(pool) = {} /\ allocated \subseteq Segments
  BY <1>5, <1>6, <1>9
<1>12. r = [q EXCEPT !.segments = segments, !.pool = pool, !.allocated = allocated]
  BY <1>4 DEF FreeSegments, kept, pool, k, room
<1> HIDE DEF segments, allocated, r
<1>13. r \in PipeType
  BY <1>9, <1>10, <1>11, <1>12 DEF PipeType
<1>14. r.segments = segments /\ r.pool = pool /\ r.allocated = allocated /\ SameRest(r, q)
  BY <1>12 DEF PipeType, SameRest
<1>15. Pooled(r, L, c, hi)
  BY <1>7, <1>9, <1>11, <1>14 DEF Pooled, others
<1> QED BY <1>13, <1>14, <1>15 DEF r, list, segments, dropped

-----------------------------------------------------------------------------
(* What a pipe holds of the stream.                                        *)

\* The list is not empty: the reading head is in L[lo], the reading tail in L[t], the
\* writing head is L[hi]; h bytes have been taken, m flushed and w written.
Placed(q, L, lo, hi, t, base, h, m, w) ==
    /\ q.readingHead.segment = L[lo] /\ q.readingTail.segment = L[t] /\ q.writingHead = L[hi] /\ t \in lo .. hi
    /\ q.readingHead.index <= q.segments[L[lo]].end /\ q.readingTail.index <= q.segments[L[t]].end
    /\ t = lo => q.readingHead.index <= q.readingTail.index
    /\ h = Number(q, base, L[lo], q.readingHead.index)
    /\ m = Number(q, base, L[t], q.readingTail.index)
    /\ w = Number(q, base, L[hi], Filled(q, L[hi]))
    /\ q.lastExamined # -1 /\ q.notConsumed = m - base - q.lastExamined

\* The list is empty.
Vacant(q, base, h, m, w) ==
    /\ q.readingHead.segment = Null /\ q.readingTail.segment = Null /\ q.writingHead = Null
    /\ q.memory = NoMemory /\ ~q.writing
    /\ q.lastExamined # -1 => q.readingHead = NoPosition /\ q.readingTail = NoPosition /\ q.notConsumed = 0
    /\ h = base /\ m = base /\ w = base

\* What the writer has in hand.
Lent(q, L, lo, hi, m, w) ==
    /\ q.notFlushed = w - m
    /\ ~q.writing => q.buffered = 0 /\ q.notFlushed = 0
    /\ q.memory.length > 0 =>
         /\ lo <= hi /\ q.memory.segment = L[hi] /\ q.memory.from = Filled(q, L[hi])
         /\ q.memory.from + q.memory.length = Len(q.segments[L[hi]].memory)

\* What the reader r has in hand.
Held(q, r, L, lo, hi, t) ==
    r.at = "holding" =>
        \/ r.begin = NoPosition /\ r.end = NoPosition
        \/ /\ lo <= hi /\ r.begin = q.readingHead
           /\ r.end \in PositionType
           /\ \E e \in lo .. t :
                /\ r.end.segment = L[e] /\ r.end.index <= q.segments[L[e]].end
                /\ e = t => r.end.index <= q.readingTail.index
                /\ e = lo => r.begin.index <= r.end.index

Data(q, r, L, lo, hi, t, base, h, m, w) ==
    /\ q \in PipeType /\ Stored(q, L, lo, hi, base) /\ lo <= hi + 1 /\ Pooled(q, L, lo, hi)
    /\ IF lo <= hi THEN Placed(q, L, lo, hi, t, base, h, m, w) ELSE Vacant(q, base, h, m, w)
    /\ Lent(q, L, lo, hi, m, w) /\ Held(q, r, L, lo, hi, t)

HasData(q, r, h, m, w) == \E L, lo, hi, t, base : Data(q, r, L, lo, hi, t, base, h, m, w)

\* A position is its segment and its index.
LEMMA PositionIs ==
    ASSUME NEW x \in PositionType
    PROVE  x = Position(x.segment, x.index) /\ x.segment \in Pointers /\ x.index \in Nat
BY DEF PositionType, Position, Pointers

\* A position in the list is no later than one in a later segment.
LEMMA NumberOrder ==
    ASSUME NEW q, NEW L, NEW lo, NEW hi, NEW base, Stored(q, L, lo, hi, base),
           NEW b \in lo .. hi, NEW e \in lo .. hi, b <= e, NEW x \in Nat, NEW y \in Nat,
           IF b = e THEN x <= y ELSE x <= q.segments[L[b]].end
    PROVE  /\ Number(q, base, L[b], x) \in Nat /\ Number(q, base, L[e], y) \in Nat
           /\ Number(q, base, L[b], x) <= Number(q, base, L[e], y)
<1>1. /\ q.segments[L[b]].running \in Nat /\ q.segments[L[e]].running \in Nat /\ q.segments[L[b]].end \in Nat
      /\ base \in Nat /\ b \in Nat /\ e \in Nat
  <2>1. base \in Nat
    BY DEF Stored
  <2> QED BY <2>1, StoredFacts
<1>2. b < e => q.segments[L[b]].running + q.segments[L[b]].end <= q.segments[L[e]].running
  BY DEF Stored, Indexed
<1> QED BY <1>1, <1>2 DEF Number

\* What was taken, what was flushed and what was written are in this order.
LEMMA DataOrder ==
    ASSUME NEW q, NEW r, NEW L, NEW lo, NEW hi, NEW t, NEW base, NEW h, NEW m, NEW w,
           Data(q, r, L, lo, hi, t, base, h, m, w)
    PROVE  /\ h \in Nat /\ m \in Nat /\ w \in Nat /\ h <= m /\ m <= w
           /\ lo \in Nat /\ hi \in Nat /\ base \in Nat /\ lo <= hi + 1 /\ L \in Lists
<1>1. /\ lo \in Nat /\ hi \in Nat /\ base \in Nat /\ lo <= hi + 1 /\ L \in Lists /\ q \in PipeType
      /\ Stored(q, L, lo, hi, base)
  BY DEF Data, Stored
<1>2. CASE lo <= hi
  <2>1. Placed(q, L, lo, hi, t, base, h, m, w)
    BY <1>2 DEF Data
  <2>2. t \in lo .. hi /\ lo \in lo .. hi /\ hi \in lo .. hi /\ lo <= t /\ t <= hi
    BY <1>1, <1>2, <2>1 DEF Placed
  <2>3. q.readingHead.index \in Nat /\ q.readingTail.index \in Nat
    BY <1>1, PipeFields, PositionIs
  <2>4. Filled(q, L[hi]) \in Nat /\ q.segments[L[hi]].end <= Filled(q, L[hi]) /\ q.segments[L[hi]].end \in Nat
    BY <1>1, <2>2, StoredFacts
  <2>5. h \in Nat /\ m \in Nat /\ h <= m
    <3>1. IF lo = t THEN q.readingHead.index <= q.readingTail.index ELSE q.readingHead.index <= q.segments[L[lo]].end
      BY <2>1 DEF Placed
    <3>2. /\ Number(q, base, L[lo], q.readingHead.index) \in Nat /\ Number(q, base, L[t], q.readingTail.index) \in Nat
          /\ Number(q, base, L[lo], q.readingHead.index) <= Number(q, base, L[t], q.readingTail.index)
      BY <1>1, <2>2, <2>3, <3>1, NumberOrder
    <3> QED BY <2>1, <3>2 DEF Placed
  <2>6. w \in Nat /\ m <= w
    <3>1. q.readingTail.index <= q.segments[L[t]].end
      BY <2>1 DEF Placed
    <3>2. IF t = hi THEN q.readingTail.index <= Filled(q, L[hi]) ELSE q.readingTail.index <= q.segments[L[t]].end
      BY <2>3, <2>4, <3>1
    <3>3. /\ Number(q, base, L[hi], Filled(q, L[hi])) \in Nat
          /\ Number(q, base, L[t], q.readingTail.index) <= Number(q, base, L[hi], Filled(q, L[hi]))
      BY <1>1, <2>2, <2>3, <2>4, <3>2, NumberOrder
    <3> QED BY <2>1, <3>3 DEF Placed
  <2> QED BY <1>1, <2>5, <2>6
<1>3. CASE ~(lo <= hi)
  BY <1>1, <1>3 DEF Data, Vacant
<1> QED BY <1>2, <1>3

\* From a null position on there is nothing.
LEMMA BytesOfNull ==
    ASSUME NEW q, SegmentsTyped(q), \A s \in Segments : q.segments[s] = EmptySegment,
           NEW begin, begin.segment = Null, NEW end
    PROVE  Bytes(q, begin, end) = <<>>
<1> DEFINE g == [s \in Segments \cup {Null} |->
                   IF s = Null THEN <<>>
                   ELSE IF s = end.segment THEN Slice(q.segments[s].memory, Low(begin, s), end.index)
                   ELSE Join(Slice(q.segments[s].memory, Low(begin, s), q.segments[s].end), <<>>)]
<1>1. \A s \in Segments : q.segments[s].next = Null
  BY DEF EmptySegment
<1>2. g[Null] = <<>>
  OBVIOUS
<1>3. \A s \in Segments \cup {Null} : g[s] =
          IF s = Null THEN <<>>
          ELSE IF s = end.segment THEN Slice(q.segments[s].memory, Low(begin, s), end.index)
          ELSE Join(Slice(q.segments[s].memory, Low(begin, s), q.segments[s].end), g[q.segments[s].next])
  BY <1>1, <1>2
<1>4. g = [s \in Segments \cup {Null} |-> g[s]]
  OBVIOUS
<1> HIDE DEF g
<1>5. g = BytesStep(q, begin, end, g)
  BY <1>3, <1>4 DEF BytesStep
<1>6. PICK f : f = BytesStep(q, begin, end, f) /\ Bytes(q, begin, end) = f[begin.segment]
  BY <1>5, BytesUnfold
<1> QED BY <1>6 DEF BytesStep

\* What the reader has not taken, and what the writer has not flushed.
FlushedOf(q) == Bytes(q, q.readingHead, q.readingTail)
UnflushedOf(q) ==
    IF q.writingHead = Null THEN <<>>
    ELSE Bytes(q, q.readingTail, Position(q.writingHead, q.segments[q.writingHead].end + q.buffered))

\* The bytes of the pipe are those of the stream that were flushed, and those that were not.
LEMMA StreamIs ==
    ASSUME NEW q, NEW r, NEW L, NEW lo, NEW hi, NEW t, NEW base, NEW h, NEW m, NEW w,
           Data(q, r, L, lo, hi, t, base, h, m, w)
    PROVE  FlushedOf(q) = Numbers(h, m) /\ UnflushedOf(q) = Numbers(m, w)
<1>1. /\ lo \in Nat /\ hi \in Nat /\ base \in Nat /\ lo <= hi + 1 /\ L \in Lists /\ q \in PipeType
      /\ Stored(q, L, lo, hi, base) /\ h \in Nat
  BY DataOrder DEF Data
<1>2. CASE lo <= hi
  <2>1. Placed(q, L, lo, hi, t, base, h, m, w)
    BY <1>2 DEF Data
  <2>2. t \in lo .. hi /\ lo \in lo .. hi /\ hi \in lo .. hi /\ lo <= t /\ t <= hi
    BY <1>1, <1>2, <2>1 DEF Placed
  <2>3. /\ q.readingHead.index \in Nat /\ q.readingTail.index \in Nat
        /\ q.readingHead = Position(L[lo], q.readingHead.index) /\ q.readingTail = Position(L[t], q.readingTail.index)
    <3>1. q.readingHead \in PositionType /\ q.readingTail \in PositionType
      BY <1>1, PipeFields
    <3>2. /\ q.readingHead.index \in Nat /\ q.readingTail.index \in Nat
          /\ q.readingHead = Position(q.readingHead.segment, q.readingHead.index)
          /\ q.readingTail = Position(q.readingTail.segment, q.readingTail.index)
      BY <3>1, PositionIs
    <3> QED BY <2>1, <3>2 DEF Placed
  <2>4. /\ Filled(q, L[hi]) \in Nat /\ q.segments[L[hi]].end <= Filled(q, L[hi]) /\ q.segments[L[hi]].end \in Nat
        /\ q.segments[L[t]].end <= Filled(q, L[t]) /\ q.segments[L[t]].end \in Nat /\ Filled(q, L[t]) \in Nat
        /\ L[hi] # Null
    BY <1>1, <2>2, StoredFacts
  <2>5. q.readingTail.index <= q.segments[L[t]].end
    BY <2>1 DEF Placed
  <2>6. FlushedOf(q) = Numbers(h, m)
    <3>1. IF lo = t THEN q.readingHead.index <= q.readingTail.index ELSE q.readingHead.index <= q.segments[L[lo]].end
      BY <2>1 DEF Placed
    <3>2. q.readingTail.index <= Filled(q, L[t])
      BY <2>3, <2>4, <2>5
    <3>3. Bytes(q, Position(L[lo], q.readingHead.index), Position(L[t], q.readingTail.index)) =
             Numbers(Number(q, base, L[lo], q.readingHead.index), Number(q, base, L[t], q.readingTail.index))
      BY <1>1, <2>2, <2>3, <3>1, <3>2, BytesAre
    <3> QED BY <2>1, <2>3, <3>3 DEF Placed, FlushedOf
  <2>7. UnflushedOf(q) = Numbers(m, w)
    <3>1. IF t = hi THEN q.readingTail.index <= Filled(q, L[hi]) ELSE q.readingTail.index <= q.segments[L[t]].end
      BY <2>3, <2>4, <2>5
    <3>2. Bytes(q, Position(L[t], q.readingTail.index), Position(L[hi], Filled(q, L[hi]))) =
             Numbers(Number(q, base, L[t], q.readingTail.index), Number(q, base, L[hi], Filled(q, L[hi])))
      BY <1>1, <2>2, <2>3, <2>4, <3>1, BytesAre
    <3>3. q.writingHead = L[hi] /\ q.segments[q.writingHead].end + q.buffered = Filled(q, L[hi])
      BY <2>1 DEF Placed, Filled
    <3> QED BY <2>1, <2>3, <2>4, <3>2, <3>3 DEF Placed, UnflushedOf
  <2> QED BY <2>6, <2>7
<1>3. CASE ~(lo <= hi)
  <2>1. Vacant(q, base, h, m, w)
    BY <1>3 DEF Data
  <2>2. \A s \in Segments : q.segments[s] = EmptySegment
    BY <1>1, <1>3 DEF Stored, Linked
  <2>3. FlushedOf(q) = <<>>
    <3>1. SegmentsTyped(q) /\ q.readingHead.segment = Null
      BY <1>1, <2>1, PipeFields DEF Vacant
    <3> QED BY <2>2, <3>1, BytesOfNull DEF FlushedOf
  <2>4. UnflushedOf(q) = <<>> /\ Numbers(h, m) = <<>> /\ Numbers(m, w) = <<>>
    BY <1>1, <2>1, NumbersEmpty DEF Vacant, UnflushedOf
  <2> QED BY <2>3, <2>4
<1> QED BY <1>2, <1>3

-----------------------------------------------------------------------------
(* GetMemory.                                                              *)

\* What is known of the writing head and the reading tail when the list is not empty.
LEMMA DataFacts ==
    ASSUME NEW q, NEW r, NEW L, NEW lo, NEW hi, NEW t, NEW base, NEW h, NEW m, NEW w,
           Data(q, r, L, lo, hi, t, base, h, m, w), lo <= hi
    PROVE  /\ Placed(q, L, lo, hi, t, base, h, m, w) /\ Stored(q, L, lo, hi, base) /\ q \in PipeType
           /\ t \in lo .. hi /\ lo \in lo .. hi /\ hi \in lo .. hi /\ q.writingHead = L[hi]
           /\ L[hi] \in Segments /\ L[hi] # Null /\ q.segments[L[hi]] \in SegmentType
           /\ Filled(q, L[hi]) = q.segments[L[hi]].end + q.buffered
<1>1. lo \in Nat /\ hi \in Nat /\ Stored(q, L, lo, hi, base) /\ q \in PipeType
  BY DataOrder DEF Data
<1>2. Placed(q, L, lo, hi, t, base, h, m, w)
  BY DEF Data
<1>3. t \in lo .. hi /\ q.writingHead = L[hi]
  BY <1>2 DEF Placed
<1>4. lo \in lo .. hi /\ hi \in lo .. hi
  BY <1>1
<1>5. L[hi] \in Segments /\ L[hi] # Null
  BY <1>1, <1>4, StoredFacts
<1>6. q.segments[L[hi]] \in SegmentType
  BY <1>1, <1>5 DEF Stored, SegmentsTyped
<1>7. Filled(q, L[hi]) = q.segments[L[hi]].end + q.buffered
  BY <1>3 DEF Filled
<1> QED BY <1>1, <1>2, <1>3, <1>4, <1>5, <1>6, <1>7

\* From q to v the list grows at its end only, and the reading tail moves on.
Extends(q, v, L, M, lo, k, t, u) ==
    /\ lo \in Nat /\ t \in Nat /\ u \in Nat /\ t <= u /\ lo <= k
    /\ v.readingHead = q.readingHead
    /\ q.readingTail.index \in Nat /\ v.readingTail.index \in Nat
    /\ u = t => q.readingTail.index <= v.readingTail.index
    /\ \A i \in lo .. t : /\ M[i] = L[i] /\ q.segments[L[i]].end \in Nat /\ v.segments[L[i]].end \in Nat
                          /\ q.segments[L[i]].end <= v.segments[L[i]].end

\* The reader goes on holding what it holds.
LEMMA HeldStays ==
    ASSUME NEW q, NEW v, NEW L, NEW M, NEW lo, NEW hi, NEW k, NEW t, NEW u, NEW r,
           Extends(q, v, L, M, lo, k, t, u), Held(q, r, L, lo, hi, t)
    PROVE  Held(v, r, M, lo, k, u)
<1> SUFFICES ASSUME r.at = "holding", ~(r.begin = NoPosition /\ r.end = NoPosition) PROVE Held(v, r, M, lo, k, u)
  BY DEF Held
<1>1. /\ r.begin = q.readingHead /\ r.end \in PositionType
      /\ \E e \in lo .. t : /\ r.end.segment = L[e] /\ r.end.index <= q.segments[L[e]].end
                            /\ e = t => r.end.index <= q.readingTail.index
                            /\ e = lo => r.begin.index <= r.end.index
  BY DEF Held
<1>2. PICK e \in lo .. t : /\ r.end.segment = L[e] /\ r.end.index <= q.segments[L[e]].end
                           /\ e = t => r.end.index <= q.readingTail.index
                           /\ e = lo => r.begin.index <= r.end.index
  BY <1>1
<1>3. /\ lo \in Nat /\ t \in Nat /\ u \in Nat /\ t <= u /\ lo <= k
      /\ v.readingHead = q.readingHead
      /\ q.readingTail.index \in Nat /\ v.readingTail.index \in Nat
      /\ u = t => q.readingTail.index <= v.readingTail.index
      /\ M[e] = L[e] /\ q.segments[L[e]].end \in Nat /\ v.segments[L[e]].end \in Nat
      /\ q.segments[L[e]].end <= v.segments[L[e]].end
  BY DEF Extends
<1>4. r.end.index \in Nat
  BY <1>1, PositionIs
<1>5. r.end.segment = M[e] /\ r.end.index <= v.segments[M[e]].end
  BY <1>2, <1>3, <1>4
<1>6. e = u => r.end.index <= v.readingTail.index
  BY <1>2, <1>3, <1>4
<1>7. e \in lo .. u
  BY <1>3
<1> QED BY <1>1, <1>2, <1>3, <1>5, <1>6, <1>7 DEF Held

\* Only the segments matter, and what is buffered in the last of them.
LEMMA SameStored ==
    ASSUME NEW q, NEW L, NEW lo, NEW hi, NEW base, Stored(q, L, lo, hi, base), NEW v,
           v.segments = q.segments, v.buffered \in Nat, \A i \in lo .. hi : Filled(v, L[i]) = Filled(q, L[i])
    PROVE  Stored(v, L, lo, hi, base)
<1>1. SegmentsTyped(v)
  BY DEF Stored, SegmentsTyped
<1>2. Linked(v, L, lo, hi)
  BY DEF Stored, Linked
<1>3. Indexed(v, L, lo, hi)
  BY DEF Stored, Indexed
<1>4. Filling(v, L, lo, hi, base)
  BY DEF Stored, Filling, Number
<1> QED BY <1>1, <1>2, <1>3, <1>4 DEF Stored

\* The flag Writing says nothing of what the pipe holds, once there is a list.
LEMMA WritingData ==
    ASSUME NEW q, NEW r, NEW L, NEW lo, NEW hi, NEW t, NEW base, NEW h, NEW m, NEW w,
           Data(q, r, L, lo, hi, t, base, h, m, w), lo <= hi
    PROVE  Data([q EXCEPT !.writing = TRUE], r, L, lo, hi, t, base, h, m, w)
<1> DEFINE v == [q EXCEPT !.writing = TRUE]
<1>1. Placed(q, L, lo, hi, t, base, h, m, w) /\ Stored(q, L, lo, hi, base) /\ q \in PipeType
  BY DataFacts
<1>2. v \in PipeType
  BY <1>1 DEF PipeType
<1>3. /\ v.segments = q.segments /\ v.allocated = q.allocated /\ v.pool = q.pool
      /\ v.notConsumed = q.notConsumed /\ v.notFlushed = q.notFlushed /\ v.buffered = q.buffered
      /\ v.lastExamined = q.lastExamined /\ v.readingHead = q.readingHead /\ v.readingTail = q.readingTail
      /\ v.writingHead = q.writingHead /\ v.memory = q.memory /\ v.writing = TRUE
  BY <1>1 DEF PipeType
<1> HIDE DEF v
<1>4. \A s : Filled(v, s) = Filled(q, s)
  BY <1>3 DEF Filled
<1>5. Stored(v, L, lo, hi, base)
  <2>1. Stored(q, L, lo, hi, base)
    BY <1>1
  <2>2. v.segments = q.segments /\ v.buffered \in Nat /\ \A i \in lo .. hi : Filled(v, L[i]) = Filled(q, L[i])
    BY <1>3, <1>4, <2>1 DEF Stored
  <2> QED BY <2>1, <2>2, SameStored
<1>6. Pooled(v, L, lo, hi)
  BY <1>3 DEF Data, Pooled
<1>7. Placed(v, L, lo, hi, t, base, h, m, w)
  BY <1>1, <1>3, <1>4 DEF Placed, Number
<1>8. Lent(v, L, lo, hi, m, w)
  BY <1>3, <1>4 DEF Data, Lent
<1>9. Held(v, r, L, lo, hi, t)
  BY <1>3 DEF Data, Held
<1> QED BY <1>2, <1>5, <1>6, <1>7, <1>8, <1>9 DEF Data, v

\* The bytes buffered are committed to the writing head.
Grow(q) == [AdvanceEnd(q, q.writingHead, q.buffered) EXCEPT !.buffered = 0]

\* Growing changes the end of the writing head, and the count of buffered bytes.
LEMMA GrowIs ==
    ASSUME NEW q \in PipeType, q.writingHead \in Segments
    PROVE  /\ Grow(q) \in PipeType /\ Grow(q).buffered = 0
           /\ Grow(q).segments = [q.segments EXCEPT ![q.writingHead] =
                                     [q.segments[q.writingHead] EXCEPT !.end = q.segments[q.writingHead].end + q.buffered]]
           /\ Grow(q).allocated = q.allocated /\ Grow(q).pool = q.pool
           /\ Grow(q).notConsumed = q.notConsumed /\ Grow(q).notFlushed = q.notFlushed
           /\ Grow(q).lastExamined = q.lastExamined
           /\ Grow(q).readingHead = q.readingHead /\ Grow(q).readingTail = q.readingTail
           /\ Grow(q).writingHead = q.writingHead /\ Grow(q).memory = q.memory /\ Grow(q).writing = q.writing
           /\ Grow(q).writerComplete = q.writerComplete /\ Grow(q).readerComplete = q.readerComplete
<1> DEFINE s == q.writingHead
           u == [q.segments[s] EXCEPT !.end = q.segments[s].end + q.buffered]
           all == [q.segments EXCEPT ![s] = u]
           g == [q EXCEPT !.segments = all, !.buffered = 0]
<1>1. q.segments \in [Segments -> SegmentType] /\ q.buffered \in Nat /\ s \in Segments
  BY PipeFields DEF SegmentsTyped
<1>2. u \in SegmentType
  <2>1. q.segments[s] \in SegmentType
    BY <1>1
  <2>2. q.segments[s].end + q.buffered \in Nat
    BY <1>1, <2>1 DEF SegmentType
  <2> QED BY <2>1, <2>2, SegmentWith
<1> HIDE DEF u
<1>3. all \in [Segments -> SegmentType]
  BY <1>1, <1>2
<1>4. Grow(q) = g
  BY DEF Grow, AdvanceEnd, u
<1> HIDE DEF all
<1>5. g \in PipeType
  BY <1>3 DEF PipeType
<1>6. /\ g.buffered = 0 /\ g.segments = all
      /\ g.allocated = q.allocated /\ g.pool = q.pool
      /\ g.notConsumed = q.notConsumed /\ g.notFlushed = q.notFlushed
      /\ g.lastExamined = q.lastExamined
      /\ g.readingHead = q.readingHead /\ g.readingTail = q.readingTail
      /\ g.writingHead = q.writingHead /\ g.memory = q.memory /\ g.writing = q.writing
      /\ g.writerComplete = q.writerComplete /\ g.readerComplete = q.readerComplete
  BY DEF PipeType
<1> HIDE DEF g, s
<1> QED BY <1>4, <1>5, <1>6 DEF all, u, s

\* Then the list is stored as before, with nothing buffered.
LEMMA StoredGrow ==
    ASSUME NEW q, NEW r, NEW L, NEW lo, NEW hi, NEW t, NEW base, NEW h, NEW m, NEW w,
           Data(q, r, L, lo, hi, t, base, h, m, w), lo <= hi
    PROVE  /\ Stored(Grow(q), L, lo, hi, base)
           /\ Grow(q).segments[L[hi]].end = Filled(q, L[hi]) /\ Filled(Grow(q), L[hi]) = Filled(q, L[hi])
           /\ Grow(q).segments[L[hi]].running = q.segments[L[hi]].running
           /\ Grow(q).segments[L[hi]].memory = q.segments[L[hi]].memory
           /\ q.segments[L[hi]].end <= Grow(q).segments[L[hi]].end
           /\ \A i \in lo .. hi : i # hi => Grow(q).segments[L[i]] = q.segments[L[i]]
<1> DEFINE s == L[hi]
           u == [q.segments[s] EXCEPT !.end = q.segments[s].end + q.buffered]
<1>1. /\ Stored(q, L, lo, hi, base) /\ q \in PipeType /\ q.writingHead = s
      /\ s \in Segments /\ q.segments[s] \in SegmentType /\ Filled(q, s) = q.segments[s].end + q.buffered
      /\ hi \in lo .. hi
  BY DataFacts
<1> HIDE DEF s
<1>2. q.buffered \in Nat /\ q.segments[s].end \in Nat
  <2>1. q.buffered \in Nat
    BY <1>1, PipeFields
  <2> QED BY <1>1, <2>1 DEF SegmentType
<1>3. /\ u \in SegmentType /\ u.memory = q.segments[s].memory /\ u.next = q.segments[s].next
      /\ u.running = q.segments[s].running /\ u.end = q.segments[s].end + q.buffered
  <2>1. q.segments[s].end + q.buffered \in Nat
    BY <1>2
  <2> QED BY <1>1, <2>1, SegmentWith
<1>4. Grow(q).segments = [q.segments EXCEPT ![s] = u] /\ Grow(q).buffered = 0 /\ Grow(q).writingHead = s
  BY <1>1, GrowIs
<1> HIDE DEF u
<1>5. /\ u.end + 0 <= Len(u.memory)
      /\ \A k \in 1 .. u.end + 0 : u.memory[k] = base + u.running + k
  <2>1. /\ Filled(q, s) <= Len(q.segments[s].memory)
        /\ \A k \in 1 .. Filled(q, s) : q.segments[s].memory[k] = Number(q, base, s, k)
    BY <1>1 DEF Stored, Filling, s
  <2>2. u.end + 0 = Filled(q, s)
    BY <1>1, <1>2, <1>3
  <2> QED BY <1>3, <2>1, <2>2 DEF Number
<1>6. /\ Stored(Grow(q), L, lo, hi, base)
      /\ Grow(q).segments[L[hi]] = u /\ Filled(Grow(q), L[hi]) = u.end + 0
      /\ \A i \in lo .. hi : i # hi => Grow(q).segments[L[i]] = q.segments[L[i]]
  <2> DEFINE g == Grow(q)
  <2>1. g.buffered = 0 /\ g.writingHead = L[hi] /\ g.segments = [q.segments EXCEPT ![L[hi]] = u]
    BY <1>4 DEF s
  <2> HIDE DEF g
  <2>2. LastBecomes(q, g, L, hi, base, u)
    BY <1>1, <1>3, <1>5, <2>1 DEF LastBecomes, s
  <2>3. /\ Stored(g, L, lo, hi, base)
        /\ g.segments[L[hi]] = u /\ Filled(g, L[hi]) = u.end + g.buffered
        /\ \A i \in lo .. hi : i # hi => g.segments[L[i]] = q.segments[L[i]]
    BY <1>1, <2>2, StoredLast
  <2> QED BY <2>1, <2>3 DEF g
<1> QED BY <1>1, <1>2, <1>3, <1>6 DEF s

\* It moves no byte of the stream.
LEMMA GrowData ==
    ASSUME NEW q, NEW r, NEW L, NEW lo, NEW hi, NEW t, NEW base, NEW h, NEW m, NEW w,
           Data(q, r, L, lo, hi, t, base, h, m, w), lo <= hi
    PROVE  Data(Grow(q), r, L, lo, hi, t, base, h, m, w)
<1> DEFINE v == Grow(q)
<1>1. /\ Placed(q, L, lo, hi, t, base, h, m, w) /\ Stored(q, L, lo, hi, base) /\ q \in PipeType
      /\ t \in lo .. hi /\ lo \in lo .. hi /\ hi \in lo .. hi /\ q.writingHead = L[hi] /\ L[hi] \in Segments
  BY DataFacts
<1>2. /\ v \in PipeType /\ v.allocated = q.allocated /\ v.pool = q.pool
      /\ v.notConsumed = q.notConsumed /\ v.notFlushed = q.notFlushed /\ v.buffered = 0
      /\ v.lastExamined = q.lastExamined /\ v.readingHead = q.readingHead /\ v.readingTail = q.readingTail
      /\ v.writingHead = q.writingHead /\ v.memory = q.memory /\ v.writing = q.writing
  BY <1>1, GrowIs
<1>3. /\ Stored(v, L, lo, hi, base)
      /\ Filled(v, L[hi]) = Filled(q, L[hi])
      /\ v.segments[L[hi]].running = q.segments[L[hi]].running
      /\ v.segments[L[hi]].memory = q.segments[L[hi]].memory
      /\ q.segments[L[hi]].end <= v.segments[L[hi]].end
      /\ \A i \in lo .. hi : i # hi => v.segments[L[i]] = q.segments[L[i]]
  BY StoredGrow
<1> HIDE DEF v
<1>4. ASSUME NEW i \in lo .. hi
      PROVE  /\ v.segments[L[i]].running = q.segments[L[i]].running
             /\ q.segments[L[i]].end \in Nat /\ v.segments[L[i]].end \in Nat /\ q.segments[L[i]].end <= v.segments[L[i]].end
  <2>1. q.segments[L[i]].end \in Nat /\ v.segments[L[i]].end \in Nat
    BY <1>1, <1>3, StoredFacts
  <2> QED BY <1>3, <2>1
<1>5. Pooled(v, L, lo, hi)
  BY <1>2 DEF Data, Pooled
<1>6. q.readingHead.index \in Nat /\ q.readingTail.index \in Nat
  BY <1>1, PipeFields, PositionIs
<1>7. Placed(v, L, lo, hi, t, base, h, m, w)
  <2>1. q.readingHead.index <= v.segments[L[lo]].end /\ q.readingTail.index <= v.segments[L[t]].end
    <3>1. q.readingHead.index <= q.segments[L[lo]].end /\ q.readingTail.index <= q.segments[L[t]].end
      BY <1>1 DEF Placed
    <3>2. /\ q.segments[L[lo]].end \in Nat /\ v.segments[L[lo]].end \in Nat /\ q.segments[L[lo]].end <= v.segments[L[lo]].end
          /\ q.segments[L[t]].end \in Nat /\ v.segments[L[t]].end \in Nat /\ q.segments[L[t]].end <= v.segments[L[t]].end
      BY <1>1, <1>4
    <3> QED BY <1>6, <3>1, <3>2
  <2>2. /\ v.segments[L[lo]].running = q.segments[L[lo]].running
        /\ v.segments[L[t]].running = q.segments[L[t]].running
        /\ v.segments[L[hi]].running = q.segments[L[hi]].running
    BY <1>1, <1>4
  <2> QED BY <1>1, <1>2, <1>3, <2>1, <2>2 DEF Placed, Number
<1>8. Lent(v, L, lo, hi, m, w)
  BY <1>2, <1>3 DEF Data, Lent
<1>9. Held(v, r, L, lo, hi, t)
  <2>1. Extends(q, v, L, L, lo, hi, t, t)
    <3>1. \A i \in lo .. t : i \in lo .. hi
      BY <1>1 DEF Stored
    <3>2. lo \in Nat /\ t \in Nat
      BY <1>1 DEF Stored
    <3> QED BY <1>2, <1>4, <1>6, <3>1, <3>2 DEF Extends
  <2>2. Held(q, r, L, lo, hi, t)
    BY DEF Data
  <2> QED BY <2>1, <2>2, HeldStays
<1> QED BY <1>2, <1>3, <1>5, <1>7, <1>8, <1>9 DEF Data, v

\* The memory rented for a segment.
Size(hint) == IF hint > MinimumSegmentSize THEN hint ELSE MinimumSegmentSize
Fresh(hint) == [i \in 1 .. Size(hint) |-> 0]

\* The memory is as long as it must be.
LEMMA FreshIs ==
    ASSUME NEW hint \in Nat
    PROVE  Size(hint) \in Nat /\ Size(hint) > 0 /\ Fresh(hint) \in Seq(Nat) /\ Len(Fresh(hint)) = Size(hint)
<1>1. Size(hint) \in Nat /\ Size(hint) > 0
  BY SizesAssumption DEF Size
<1>2. Fresh(hint) \in [1 .. Size(hint) -> Nat]
  BY DEF Fresh
<1> QED BY <1>1, <1>2, IsSeq

\* All but the segments and the memory the writer has.
SameButMemory(r, q) ==
    /\ r.allocated = q.allocated /\ r.pool = q.pool
    /\ r.notConsumed = q.notConsumed /\ r.notFlushed = q.notFlushed /\ r.buffered = q.buffered
    /\ r.lastExamined = q.lastExamined /\ r.readingHead = q.readingHead /\ r.readingTail = q.readingTail
    /\ r.writingHead = q.writingHead /\ r.writing = q.writing
    /\ r.writerComplete = q.writerComplete /\ r.readerComplete = q.readerComplete

\* RentMemory gives the segment memory, and the writer all of it.
LEMMA RentMemoryIs ==
    ASSUME NEW q \in PipeType, NEW s \in Segments, NEW hint \in Nat
    PROVE  LET r == RentMemory(q, s, hint)
               u == [q.segments[s] EXCEPT !.memory = Fresh(hint)]
           IN  /\ r \in PipeType /\ SameButMemory(r, q)
               /\ u \in SegmentType /\ r.segments = [q.segments EXCEPT ![s] = u]
               /\ r.memory.segment = s /\ r.memory.from = 0 /\ r.memory.length = Size(hint)
<1> DEFINE r == RentMemory(q, s, hint)
           u == [q.segments[s] EXCEPT !.memory = Fresh(hint)]
           all == [q.segments EXCEPT ![s] = u]
           lent == [segment |-> s, from |-> 0, length |-> Size(hint)]
<1>1. Fresh(hint) \in Seq(Nat) /\ Size(hint) \in Nat
  BY FreshIs
<1>2. q.segments \in [Segments -> SegmentType] /\ q.segments[s] \in SegmentType
  BY PipeFields DEF SegmentsTyped
<1>3. u \in SegmentType
  BY <1>1, <1>2, SegmentWith
<1>4. r = [q EXCEPT !.segments = all, !.memory = lent]
  BY DEF RentMemory, Fresh, Size
<1> HIDE DEF u, r
<1>5. all \in [Segments -> SegmentType]
  BY <1>2, <1>3
<1>6. lent \in MemoryType /\ lent.segment = s /\ lent.from = 0 /\ lent.length = Size(hint)
  BY <1>1 DEF MemoryType
<1> HIDE DEF all, lent
<1>7. r \in PipeType
  BY <1>4, <1>5, <1>6 DEF PipeType
<1>8. SameButMemory(r, q) /\ r.segments = all /\ r.memory = lent
  BY <1>4 DEF PipeType, SameButMemory
<1> QED BY <1>3, <1>6, <1>7, <1>8 DEF r, all, u

\* The writing head holds nothing and gets other memory.
LEMMA RenewData ==
    ASSUME NEW q, NEW r, NEW L, NEW lo, NEW hi, NEW t, NEW base, NEW h, NEW m, NEW w,
           Data(q, r, L, lo, hi, t, base, h, m, w), lo <= hi, NEW hint \in Nat,
           q.buffered = 0, q.segments[L[hi]].end = 0
    PROVE  Data(RentMemory(q, L[hi], hint), r, L, lo, hi, t, base, h, m, w)
<1> DEFINE s == L[hi]
           v == RentMemory(q, s, hint)
           u == [q.segments[s] EXCEPT !.memory = Fresh(hint)]
<1>1. /\ Placed(q, L, lo, hi, t, base, h, m, w) /\ Stored(q, L, lo, hi, base) /\ q \in PipeType
      /\ t \in lo .. hi /\ lo \in lo .. hi /\ hi \in lo .. hi /\ q.writingHead = s /\ s \in Segments
      /\ q.segments[s] \in SegmentType /\ Filled(q, s) = q.segments[s].end + q.buffered
  BY DataFacts
<1>2. /\ v \in PipeType /\ SameButMemory(v, q)
      /\ u \in SegmentType /\ v.segments = [q.segments EXCEPT ![s] = u]
      /\ v.memory.segment = s /\ v.memory.from = 0 /\ v.memory.length = Size(hint)
  BY <1>1, RentMemoryIs, SMTT(30)
<1>3. Fresh(hint) \in Seq(Nat) /\ Len(Fresh(hint)) = Size(hint) /\ Size(hint) \in Nat
  BY FreshIs
<1>4. u.memory = Fresh(hint) /\ u.next = q.segments[s].next /\ u.running = q.segments[s].running /\ u.end = 0
  BY <1>1, <1>3, SegmentWith
<1> HIDE DEF u, v
<1>5. LastBecomes(q, v, L, hi, base, u)
  BY <1>1, <1>2, <1>3, <1>4 DEF LastBecomes, SameButMemory, s
<1>6. /\ Stored(v, L, lo, hi, base) /\ v.segments[s] = u /\ Filled(v, s) = u.end + v.buffered
      /\ \A i \in lo .. hi : i # hi => v.segments[L[i]] = q.segments[L[i]]
  BY <1>1, <1>5, StoredLast DEF s
<1>7. v.buffered = 0 /\ Filled(v, s) = 0 /\ Filled(q, s) = 0
  BY <1>1, <1>2, <1>4, <1>6 DEF SameButMemory
<1>8. \A i \in lo .. hi : /\ v.segments[L[i]].running = q.segments[L[i]].running
                          /\ v.segments[L[i]].end = q.segments[L[i]].end /\ q.segments[L[i]].end \in Nat
  <2> SUFFICES ASSUME NEW i \in lo .. hi
               PROVE  /\ v.segments[L[i]].running = q.segments[L[i]].running
                      /\ v.segments[L[i]].end = q.segments[L[i]].end /\ q.segments[L[i]].end \in Nat
    OBVIOUS
  <2>1. q.segments[L[i]].end \in Nat
    BY <1>1, StoredFacts
  <2> QED BY <1>4, <1>6, <2>1 DEF s
<1>9. Pooled(v, L, lo, hi)
  BY <1>2 DEF Data, Pooled, SameButMemory
<1>10. Placed(v, L, lo, hi, t, base, h, m, w)
  BY <1>1, <1>2, <1>7, <1>8 DEF Placed, Number, SameButMemory, s
<1>11. Lent(v, L, lo, hi, m, w)
  <2>1. v.notFlushed = w - m /\ (~v.writing => v.buffered = 0 /\ v.notFlushed = 0)
    BY <1>2 DEF Data, Lent, SameButMemory
  <2>2. v.memory.segment = L[hi] /\ v.memory.from = Filled(v, L[hi])
    BY <1>2, <1>7 DEF s
  <2>3. v.memory.from + v.memory.length = Len(v.segments[L[hi]].memory)
    BY <1>2, <1>3, <1>4, <1>6 DEF s
  <2> QED BY <2>1, <2>2, <2>3 DEF Lent
<1>12. Held(v, r, L, lo, hi, t)
  <2>1. Extends(q, v, L, L, lo, hi, t, t)
    <3>1. (\A i \in lo .. t : i \in lo .. hi) /\ lo \in Nat /\ t \in Nat
      BY <1>1 DEF Stored
    <3>2. q.readingTail.index \in Nat
      BY <1>1, PipeFields, PositionIs
    <3> QED BY <1>2, <1>8, <3>1, <3>2 DEF Extends, SameButMemory
  <2>2. Held(q, r, L, lo, hi, t)
    BY DEF Data
  <2> QED BY <2>1, <2>2, HeldStays
<1> QED BY <1>2, <1>6, <1>9, <1>10, <1>11, <1>12 DEF Data, v, s

\* What the allocation and the linking of a segment leave alone.
SameControl(r, q) ==
    /\ r.notConsumed = q.notConsumed /\ r.notFlushed = q.notFlushed /\ r.buffered = q.buffered
    /\ r.lastExamined = q.lastExamined /\ r.readingHead = q.readingHead /\ r.readingTail = q.readingTail
    /\ r.writingHead = q.writingHead /\ r.writing = q.writing
    /\ r.writerComplete = q.writerComplete /\ r.readerComplete = q.readerComplete

\* AllocateSegment takes the segment from the pool, or makes a new one.
LEMMA AllocateSegmentIs ==
    ASSUME NEW q \in PipeType, NextSegment(q) \in Segments, PoolAfter(q) \in Seq(Segments), NEW hint \in Nat
    PROVE  LET s == NextSegment(q)
               r == AllocateSegment(q, hint)
               u == [q.segments[s] EXCEPT !.memory = Fresh(hint)]
           IN  /\ r \in PipeType /\ SameControl(r, q)
               /\ r.allocated = q.allocated \cup {s} /\ r.pool = PoolAfter(q)
               /\ u \in SegmentType /\ r.segments = [q.segments EXCEPT ![s] = u]
               /\ r.memory.segment = s /\ r.memory.from = 0 /\ r.memory.length = Size(hint)
<1> DEFINE s == NextSegment(q)
           r == AllocateSegment(q, hint)
           allocated == q.allocated \cup {s}
           pool == PoolAfter(q)
           a == [q EXCEPT !.allocated = allocated, !.pool = pool]
<1>1. allocated \in SUBSET Segments /\ pool \in Seq(Segments)
  BY PipeFields
<1>2. r = RentMemory(a, s, hint)
  BY DEF AllocateSegment, PoolAfter
<1> HIDE DEF allocated, pool, r, s
<1>3. a \in PipeType
  BY <1>1 DEF PipeType
<1>4. SameControl(a, q) /\ a.segments = q.segments /\ a.allocated = allocated /\ a.pool = pool
  BY DEF PipeType, SameControl
<1> HIDE DEF a
<1> DEFINE v == RentMemory(a, s, hint)
           u == [a.segments[s] EXCEPT !.memory = Fresh(hint)]
<1>5. /\ v \in PipeType /\ SameButMemory(v, a)
      /\ u \in SegmentType /\ v.segments = [a.segments EXCEPT ![s] = u]
      /\ v.memory.segment = s /\ v.memory.from = 0 /\ v.memory.length = Size(hint)
  BY <1>3, RentMemoryIs DEF s
<1> HIDE DEF v
<1>6. SameControl(v, q) /\ v.allocated = allocated /\ v.pool = pool
  BY <1>4, <1>5 DEF SameButMemory, SameControl
<1> QED BY <1>2, <1>4, <1>5, <1>6 DEF r, v, allocated, pool, s

\* SetNext links the two segments, and computes where the second begins.
LEMMA SetNextIs ==
    ASSUME NEW q \in PipeType, NEW x \in Segments, NEW s \in Segments, x # s
    PROVE  LET r == SetNext(q, x, s)
           IN  /\ r \in PipeType /\ SameControl(r, q) /\ r.allocated = q.allocated /\ r.pool = q.pool /\ r.memory = q.memory
               /\ \A y \in Segments :
                    /\ r.segments[y].memory = q.segments[y].memory /\ r.segments[y].end = q.segments[y].end
                    /\ r.segments[y].next = IF y = x THEN s ELSE q.segments[y].next
                    /\ r.segments[y].running = IF y = s THEN q.segments[x].running + q.segments[x].end
                                               ELSE q.segments[y].running
<1> DEFINE r == SetNext(q, x, s)
           a == [q.segments[x] EXCEPT !.next = s]
           b == [q.segments[s] EXCEPT !.running = q.segments[x].running + q.segments[x].end]
           all == [[q.segments EXCEPT ![x] = a] EXCEPT ![s] = b]
<1>1. q.segments \in [Segments -> SegmentType] /\ \A y \in Segments : q.segments[y] \in SegmentType
  BY PipeFields DEF SegmentsTyped
<1>2. /\ a \in SegmentType /\ a.memory = q.segments[x].memory /\ a.next = s
      /\ a.end = q.segments[x].end /\ a.running = q.segments[x].running
  <2>1. s \in Pointers
    BY DEF Pointers
  <2> QED BY <1>1, <2>1, SegmentWith
<1>3. /\ b \in SegmentType /\ b.memory = q.segments[s].memory /\ b.next = q.segments[s].next
      /\ b.end = q.segments[s].end /\ b.running = q.segments[x].running + q.segments[x].end
  <2>1. q.segments[x].running + q.segments[x].end \in Nat
    <3>1. q.segments[x] \in SegmentType
      BY <1>1
    <3> QED BY <3>1 DEF SegmentType
  <2> QED BY <1>1, <2>1, SegmentWith
<1>4. r = [q EXCEPT !.segments = all]
  BY DEF SetNext
<1> HIDE DEF a, b, r
<1>5. all \in [Segments -> SegmentType] /\ all[x] = a /\ all[s] = b /\ \A y \in Segments : y # x /\ y # s => all[y] = q.segments[y]
  BY <1>1, <1>2, <1>3
<1> HIDE DEF all
<1>6. r \in PipeType
  BY <1>4, <1>5 DEF PipeType
<1>7. SameControl(r, q) /\ r.segments = all /\ r.allocated = q.allocated /\ r.pool = q.pool /\ r.memory = q.memory
  BY <1>4 DEF PipeType, SameControl
<1>8. \A y \in Segments : y = x \/ y = s \/ (y # x /\ y # s)
  OBVIOUS
<1>9. ASSUME NEW y \in Segments
      PROVE  /\ all[y].memory = q.segments[y].memory /\ all[y].end = q.segments[y].end
             /\ all[y].next = IF y = x THEN s ELSE q.segments[y].next
             /\ all[y].running = IF y = s THEN q.segments[x].running + q.segments[x].end ELSE q.segments[y].running
  <2>1. CASE y = x
    BY <1>2, <1>5, <2>1
  <2>2. CASE y = s
    BY <1>3, <1>5, <2>2
  <2>3. CASE y # x /\ y # s
    BY <1>5, <2>3
  <2> QED BY <2>1, <2>2, <2>3
<1> QED BY <1>6, <1>7, <1>9 DEF r

\* The bound of the model.
HasRoom(q) == ~(q.pool = <<>> /\ q.allocated = Segments)

\* The segment taken was neither in the list nor allocated, or was in the pool.
LEMMA PooledAppend ==
    ASSUME NEW q \in PipeType, NEW L \in Lists, NEW lo \in Nat, NEW hi \in Nat, lo <= hi + 1,
           Pooled(q, L, lo, hi), HasRoom(q)
    PROVE  LET s == NextSegment(q)
           IN  /\ s \in Segments /\ PoolAfter(q) \in Seq(Segments) /\ \A i \in lo .. hi : L[i] # s
               /\ \A v : v.allocated = q.allocated \cup {s} /\ v.pool = PoolAfter(q) =>
                            Pooled(v, Longer(L, hi, s), lo, hi + 1)
<1> DEFINE s == NextSegment(q)
           top == hi + 1
           M == Longer(L, hi, s)
           listed == {L[i] : i \in lo .. hi}
<1>1. q.pool \in Seq(Segments) /\ q.allocated \subseteq Segments /\ Len(q.pool) \in Nat
  BY PipeFields, LenProperties
<1>2. /\ q.allocated = listed \cup ToSet(q.pool) /\ listed \cap ToSet(q.pool) = {}
      /\ IsInjective(q.pool) /\ Len(q.pool) <= MaximumSegmentPoolSize
  BY DEF Pooled
<1>3. /\ s \in Segments /\ (s \in ToSet(q.pool) \/ s \notin q.allocated)
      /\ PoolAfter(q) \in Seq(Segments) /\ Len(PoolAfter(q)) <= Len(q.pool) /\ IsInjective(PoolAfter(q))
      /\ ToSet(PoolAfter(q)) = ToSet(q.pool) \ {s}
  <2>1. ToSet(q.pool) \subseteq q.allocated /\ ~(q.pool = <<>> /\ q.allocated = Segments)
    BY <1>2 DEF HasRoom
  <2> QED BY <1>1, <1>2, <2>1, NextSegmentIs
<1> HIDE DEF s
<1>4. s \notin listed
  BY <1>2, <1>3
<1>5. \A i \in lo .. hi : L[i] # s
  BY <1>4
<1>6. {M[i] : i \in lo .. top} = listed \cup {s}
  <2>1. M[top] = s /\ top \in lo .. top /\ \A i \in lo .. hi : M[i] = L[i] /\ i \in lo .. top
    BY DEF Lists, Longer
  <2>2. \A i \in lo .. top : i = top \/ i \in lo .. hi
    OBVIOUS
  <2> HIDE DEF M, top
  <2> QED BY <2>1, <2>2
<1>7. Len(PoolAfter(q)) <= MaximumSegmentPoolSize
  BY <1>1, <1>2, <1>3, LenProperties, SizesAssumption
<1> HIDE DEF M, top, listed
<1>8. ASSUME NEW v, v.allocated = q.allocated \cup {s}, v.pool = PoolAfter(q) PROVE Pooled(v, M, lo, top)
  BY <1>2, <1>3, <1>4, <1>6, <1>7, <1>8 DEF Pooled
<1> QED BY <1>3, <1>5, <1>8 DEF s, M, top

\* A new writing head behind the list.
WithSegment(q, hint) ==
    LET s == NextSegment(q)
    IN  [SetNext(AllocateSegment(q, hint), q.writingHead, s) EXCEPT !.writingHead = s]

\* A segment behind the writing head adds nothing to the stream.
LEMMA AppendData ==
    ASSUME NEW q, NEW r, NEW L, NEW lo, NEW hi, NEW t, NEW base, NEW h, NEW m, NEW w,
           Data(q, r, L, lo, hi, t, base, h, m, w), lo <= hi, NEW hint \in Nat,
           q.buffered = 0, HasRoom(q)
    PROVE  HasData(WithSegment(q, hint), r, h, m, w)
<1> DEFINE s == NextSegment(q)
           x == L[hi]
           top == hi + 1
           M == Longer(L, hi, s)
           b == AllocateSegment(q, hint)
           c == SetNext(b, x, s)
           v == [c EXCEPT !.writingHead = s]
           u == [q.segments[s] EXCEPT !.memory = Fresh(hint)]
<1>1. /\ Placed(q, L, lo, hi, t, base, h, m, w) /\ Stored(q, L, lo, hi, base) /\ q \in PipeType
      /\ t \in lo .. hi /\ lo \in lo .. hi /\ hi \in lo .. hi /\ q.writingHead = x /\ x \in Segments
      /\ Filled(q, x) = q.segments[x].end + q.buffered
      /\ L \in Lists /\ lo \in Nat /\ hi \in Nat /\ base \in Nat /\ lo <= hi + 1
  BY DataFacts, DataOrder
<1>2. /\ s \in Segments /\ PoolAfter(q) \in Seq(Segments) /\ \A i \in lo .. hi : L[i] # s
      /\ \A y : y.allocated = q.allocated \cup {s} /\ y.pool = PoolAfter(q) => Pooled(y, M, lo, top)
  <2>1. Pooled(q, L, lo, hi)
    BY DEF Data
  <2> QED BY <1>1, <2>1, PooledAppend
<1>3. /\ b \in PipeType /\ SameControl(b, q)
      /\ b.allocated = q.allocated \cup {s} /\ b.pool = PoolAfter(q)
      /\ u \in SegmentType /\ b.segments = [q.segments EXCEPT ![s] = u]
      /\ b.memory.segment = s /\ b.memory.from = 0 /\ b.memory.length = Size(hint)
  BY <1>1, <1>2, AllocateSegmentIs
<1>4. Fresh(hint) \in Seq(Nat) /\ Len(Fresh(hint)) = Size(hint) /\ Size(hint) \in Nat
  BY FreshIs
<1>5. q.segments \in [Segments -> SegmentType] /\ q.segments[s] \in SegmentType
  BY <1>1, <1>2, PipeFields DEF SegmentsTyped
<1>6. u.memory = Fresh(hint) /\ u.next = q.segments[s].next /\ u.running = q.segments[s].running /\ u.end = q.segments[s].end
  BY <1>4, <1>5, SegmentWith
<1>7. x # s
  BY <1>1, <1>2
<1> HIDE DEF b, u, s, x, M
<1>8. /\ c \in PipeType /\ SameControl(c, b) /\ c.allocated = b.allocated /\ c.pool = b.pool /\ c.memory = b.memory
      /\ \A y \in Segments :
            /\ c.segments[y].memory = b.segments[y].memory /\ c.segments[y].end = b.segments[y].end
            /\ c.segments[y].next = IF y = x THEN s ELSE b.segments[y].next
            /\ c.segments[y].running = IF y = s THEN b.segments[x].running + b.segments[x].end
                                       ELSE b.segments[y].running
  <2>1. b \in PipeType /\ x \in Segments /\ s \in Segments /\ x # s
    BY <1>1, <1>2, <1>3, <1>7
  <2> QED BY <2>1, SetNextIs
<1> HIDE DEF c
<1>9. /\ v \in PipeType
      /\ v.allocated = c.allocated /\ v.pool = c.pool /\ v.memory = c.memory /\ v.segments = c.segments /\ v.writingHead = s
      /\ v.notConsumed = c.notConsumed /\ v.notFlushed = c.notFlushed /\ v.buffered = c.buffered
      /\ v.lastExamined = c.lastExamined /\ v.readingHead = c.readingHead /\ v.readingTail = c.readingTail
      /\ v.writing = c.writing
  <2>1. s \in Segments \cup {Null}
    BY <1>2
  <2>2. v \in PipeType
    BY <1>8, <2>1 DEF PipeType
  <2> QED BY <1>8, <2>2 DEF PipeType
<1> HIDE DEF v
<1>10. Appended(q, v, L, lo, hi, s, Fresh(hint))
  <2>1. v.segments \in [Segments -> SegmentType]
    BY <1>9, PipeFields DEF SegmentsTyped
  <2>2. v.buffered = 0
    BY <1>3, <1>8, <1>9 DEF SameControl
  <2>3. \A y \in Segments : b.segments[y] = IF y = s THEN u ELSE q.segments[y]
    BY <1>2, <1>3, <1>5
  <2>4. ASSUME NEW y \in Segments
        PROVE  /\ v.segments[y].memory = IF y = s THEN Fresh(hint) ELSE q.segments[y].memory
               /\ v.segments[y].end = q.segments[y].end
               /\ v.segments[y].next = IF y = x THEN s ELSE q.segments[y].next
               /\ v.segments[y].running = IF y = s THEN q.segments[x].running + q.segments[x].end
                                          ELSE q.segments[y].running
    BY <1>1, <1>6, <1>7, <1>8, <1>9, <2>3
  <2> QED BY <1>1, <1>2, <1>4, <1>9, <2>1, <2>2, <2>4 DEF Appended, x
<1>11. /\ Stored(v, M, lo, top, base) /\ M[top] = s /\ \A i \in lo .. hi : M[i] = L[i]
       /\ Filled(v, s) = 0 /\ v.segments[s].end = 0 /\ v.segments[s].memory = Fresh(hint)
       /\ v.segments[s].running = q.segments[x].running + q.segments[x].end
       /\ \A i \in lo .. hi : /\ v.segments[L[i]].running = q.segments[L[i]].running
                              /\ v.segments[L[i]].end = q.segments[L[i]].end
  <2>1. Stored(q, L, lo, hi, base) /\ lo <= hi + 1 /\ lo <= hi
    BY <1>1
  <2> HIDE DEF top
  <2> QED BY <2>1, <1>10, StoredAppend DEF M, x, top
<1>12. Pooled(v, M, lo, top)
  BY <1>2, <1>3, <1>8, <1>9
<1>13. Placed(v, M, lo, top, t, base, h, m, w)
  <2>1. v.readingHead = q.readingHead /\ v.readingTail = q.readingTail /\ v.lastExamined = q.lastExamined /\ v.notConsumed = q.notConsumed
    BY <1>3, <1>8, <1>9 DEF SameControl
  <2>2. t \in lo .. top /\ M[lo] = L[lo] /\ M[t] = L[t]
    BY <1>1, <1>11
  <2>3. /\ v.segments[L[lo]].running = q.segments[L[lo]].running /\ v.segments[L[lo]].end = q.segments[L[lo]].end
        /\ v.segments[L[t]].running = q.segments[L[t]].running /\ v.segments[L[t]].end = q.segments[L[t]].end
    BY <1>1, <1>11
  <2>4. w = Number(v, base, M[top], Filled(v, M[top]))
    <3>1. w = base + q.segments[x].running + (q.segments[x].end + 0)
      BY <1>1 DEF Placed, Number, x
    <3>2. base \in Nat /\ q.segments[x].running \in Nat /\ q.segments[x].end \in Nat
      BY <1>1, StoredFacts DEF x
    <3>3. Number(v, base, M[top], Filled(v, M[top])) = base + (q.segments[x].running + q.segments[x].end) + 0
      BY <1>11 DEF Number
    <3> QED BY <3>1, <3>2, <3>3
  <2> QED BY <1>1, <1>9, <1>11, <2>1, <2>2, <2>3, <2>4 DEF Placed, Number
<1>14. Lent(v, M, lo, top, m, w)
  <2>1. v.notFlushed = w - m /\ (~v.writing => v.buffered = 0 /\ v.notFlushed = 0)
    BY <1>3, <1>8, <1>9 DEF Data, Lent, SameControl
  <2>2. lo <= top /\ v.memory.segment = M[top] /\ v.memory.from = Filled(v, M[top])
    BY <1>1, <1>3, <1>8, <1>9, <1>11
  <2>3. v.memory.from + v.memory.length = Len(v.segments[M[top]].memory)
    BY <1>3, <1>4, <1>8, <1>9, <1>11
  <2> QED BY <2>1, <2>2, <2>3 DEF Lent
<1>15. Held(v, r, M, lo, top, t)
  <2>1. Extends(q, v, L, M, lo, top, t, t)
    <3>1. (\A i \in lo .. t : i \in lo .. hi) /\ t \in Nat /\ lo <= top
      BY <1>1
    <3>2. q.readingTail.index \in Nat /\ \A i \in lo .. hi : q.segments[L[i]].end \in Nat
      BY <1>1, PipeFields, PositionIs, StoredFacts
    <3>3. v.readingHead = q.readingHead /\ v.readingTail = q.readingTail
      BY <1>3, <1>8, <1>9 DEF SameControl
    <3> QED BY <1>1, <1>11, <3>1, <3>2, <3>3 DEF Extends
  <2>2. Held(q, r, L, lo, hi, t)
    BY DEF Data
  <2> QED BY <2>1, <2>2, HeldStays
<1>16. Data(v, r, M, lo, top, t, base, h, m, w)
  BY <1>1, <1>9, <1>11, <1>12, <1>13, <1>14, <1>15 DEF Data
<1>17. v = WithSegment(q, hint)
  BY <1>1 DEF WithSegment, v, c, b, s, x
<1> QED BY <1>16, <1>17 DEF HasData

\* The first segment of an empty list.
WithFirst(q, hint) ==
    LET s == NextSegment(q)
    IN  [AllocateSegment(q, hint) EXCEPT !.writingHead = s, !.readingHead.segment = s,
                                         !.readingTail.segment = s, !.lastExamined = 0]

\* Nor does the first segment of an empty list.
LEMMA FirstData ==
    ASSUME NEW q, NEW r, NEW L, NEW lo, NEW hi, NEW t, NEW base, NEW h, NEW m, NEW w,
           Data(q, r, L, lo, hi, t, base, h, m, w), ~(lo <= hi), NEW hint \in Nat,
           q.lastExamined # -1, HasRoom(q)
    PROVE  LET v == WithFirst([q EXCEPT !.writing = TRUE], hint)
           IN  /\ HasData(v, r, h, m, w)
               /\ v.notConsumed = q.notConsumed /\ v.notFlushed = q.notFlushed /\ v.lastExamined = 0
               /\ v.writerComplete = q.writerComplete /\ v.readerComplete = q.readerComplete
<1> DEFINE o == [q EXCEPT !.writing = TRUE]
           s == NextSegment(o)
           top == hi + 1
           M == Longer(L, hi, s)
           b == AllocateSegment(o, hint)
           start == Position(s, 0)
           v == [b EXCEPT !.writingHead = s, !.readingHead = start, !.readingTail = start, !.lastExamined = 0]
           u == [o.segments[s] EXCEPT !.memory = Fresh(hint)]
<1>1. /\ Stored(q, L, lo, hi, base) /\ q \in PipeType /\ Vacant(q, base, h, m, w) /\ Pooled(q, L, lo, hi)
      /\ L \in Lists /\ lo \in Nat /\ hi \in Nat /\ base \in Nat /\ lo = hi + 1
  <2>1. L \in Lists /\ lo \in Nat /\ hi \in Nat /\ base \in Nat /\ lo <= hi + 1
    BY DataOrder
  <2> QED BY <2>1 DEF Data
<1>2. /\ q.readingHead = NoPosition /\ q.readingTail = NoPosition /\ q.notConsumed = 0 /\ h = base /\ m = base /\ w = base
      /\ q.writingHead = Null /\ q.notFlushed = 0 /\ q.buffered = 0
  <2>1. /\ q.readingHead = NoPosition /\ q.readingTail = NoPosition /\ q.notConsumed = 0 /\ h = base /\ m = base /\ w = base
        /\ q.writingHead = Null /\ ~q.writing
    BY <1>1 DEF Vacant
  <2> QED BY <2>1 DEF Data, Lent
<1>3. /\ o \in PipeType
      /\ o.segments = q.segments /\ o.allocated = q.allocated /\ o.pool = q.pool /\ o.writing = TRUE
      /\ o.notConsumed = q.notConsumed /\ o.notFlushed = q.notFlushed /\ o.buffered = q.buffered
      /\ o.readingHead = q.readingHead /\ o.readingTail = q.readingTail
      /\ o.writerComplete = q.writerComplete /\ o.readerComplete = q.readerComplete
  <2>1. o \in PipeType
    BY <1>1 DEF PipeType
  <2> QED BY <1>1, <2>1 DEF PipeType
<1> HIDE DEF o
<1>4. NextSegment(o) = NextSegment(q) /\ PoolAfter(o) = PoolAfter(q)
  BY <1>3 DEF NextSegment, PoolAfter
<1>5. /\ s \in Segments /\ PoolAfter(o) \in Seq(Segments) /\ \A i \in lo .. hi : L[i] # s
      /\ \A y : y.allocated = o.allocated \cup {s} /\ y.pool = PoolAfter(o) => Pooled(y, M, lo, top)
  <2>1. lo <= hi + 1
    BY <1>1
  <2> QED BY <1>1, <1>3, <1>4, <2>1, PooledAppend
<1>6. /\ b \in PipeType /\ SameControl(b, o)
      /\ b.allocated = o.allocated \cup {s} /\ b.pool = PoolAfter(o)
      /\ u \in SegmentType /\ b.segments = [o.segments EXCEPT ![s] = u]
      /\ b.memory.segment = s /\ b.memory.from = 0 /\ b.memory.length = Size(hint)
  BY <1>3, <1>5, AllocateSegmentIs
<1>7. Fresh(hint) \in Seq(Nat) /\ Len(Fresh(hint)) = Size(hint) /\ Size(hint) \in Nat
  BY FreshIs
<1>8. q.segments \in [Segments -> SegmentType] /\ q.segments[s] \in SegmentType
  BY <1>1, <1>5, PipeFields DEF SegmentsTyped
<1>9. /\ u.memory = Fresh(hint) /\ u.next = q.segments[s].next /\ u.running = q.segments[s].running
      /\ u.end = q.segments[s].end
  BY <1>3, <1>7, <1>8, SegmentWith
<1>10. start \in PositionType /\ start.segment = s /\ start.index = 0
  BY <1>5 DEF Position, PositionType
<1>11. v = WithFirst(o, hint)
  <2> DEFINE c == AllocateSegment(o, hint)
  <2>1. c.readingHead = NoPosition /\ c.readingTail = NoPosition
    BY <1>2, <1>3, <1>6 DEF SameControl
  <2>2. [c.readingHead EXCEPT !.segment = s] = start /\ [c.readingTail EXCEPT !.segment = s] = start
    BY <2>1 DEF NoPosition, Position
  <2> HIDE DEF c, start
  <2>3. v = [c EXCEPT !.writingHead = s, !.readingHead = [c.readingHead EXCEPT !.segment = s],
                      !.readingTail = [c.readingTail EXCEPT !.segment = s], !.lastExamined = 0]
    BY <2>2 DEF c
  <2> HIDE DEF v, s
  <2> QED BY <2>3 DEF WithFirst, c, s
<1> HIDE DEF b, u, s, M, start
<1>12. /\ v \in PipeType
       /\ v.allocated = b.allocated /\ v.pool = b.pool /\ v.memory = b.memory /\ v.segments = b.segments /\ v.writingHead = s
       /\ v.notConsumed = b.notConsumed /\ v.notFlushed = b.notFlushed /\ v.buffered = b.buffered
       /\ v.lastExamined = 0 /\ v.readingHead = start /\ v.readingTail = start
       /\ v.writing = b.writing /\ v.writerComplete = b.writerComplete /\ v.readerComplete = b.readerComplete
  <2>1. s \in Segments \cup {Null}
    BY <1>5
  <2>2. v \in PipeType
    BY <1>6, <1>10, <2>1 DEF PipeType
  <2> QED BY <1>6, <2>2 DEF PipeType
<1> HIDE DEF v
<1>13. Appended(q, v, L, lo, hi, s, Fresh(hint))
  <2>1. v.segments \in [Segments -> SegmentType]
    BY <1>12, PipeFields DEF SegmentsTyped
  <2>2. v.buffered = 0
    BY <1>2, <1>3, <1>6, <1>12 DEF SameControl
  <2>3. \A y \in Segments : v.segments[y] = IF y = s THEN u ELSE q.segments[y]
    BY <1>3, <1>5, <1>6, <1>8, <1>12
  <2>4. ~(lo <= hi)
    OBVIOUS
  <2> QED BY <1>2, <1>5, <1>7, <1>9, <1>12, <2>1, <2>2, <2>3, <2>4 DEF Appended
<1>14. /\ Stored(v, M, lo, top, base) /\ M[top] = s
       /\ Filled(v, s) = 0 /\ v.segments[s].end = 0 /\ v.segments[s].memory = Fresh(hint)
       /\ v.segments[s].running = 0
  <2>1. Stored(q, L, lo, hi, base) /\ lo <= hi + 1
    BY <1>1
  <2> HIDE DEF top
  <2> QED BY <2>1, <1>13, StoredAppend DEF M, top
<1>15. Pooled(v, M, lo, top)
  BY <1>5, <1>6, <1>12
<1>16. Placed(v, M, lo, top, top, base, h, m, w)
  <2>1. lo = top /\ top \in lo .. top
    BY <1>1
  <2>2. v.notConsumed = 0
    BY <1>2, <1>3, <1>6, <1>12 DEF SameControl
  <2>3. h = base + 0 + 0 /\ m = base + 0 + 0 /\ w = base + 0 + 0 /\ 0 = m - base - 0
    BY <1>1, <1>2
  <2> HIDE DEF top
  <2> QED BY <1>10, <1>12, <1>14, <2>1, <2>2, <2>3 DEF Placed, Number
<1>17. Lent(v, M, lo, top, m, w)
  <2>1. v.notFlushed = w - m /\ v.writing = TRUE
    BY <1>1, <1>2, <1>3, <1>6, <1>12 DEF SameControl
  <2>2. lo <= top /\ v.memory.segment = M[top] /\ v.memory.from = Filled(v, M[top])
    BY <1>1, <1>6, <1>12, <1>14
  <2>3. v.memory.from + v.memory.length = Len(v.segments[M[top]].memory)
    BY <1>6, <1>7, <1>12, <1>14
  <2> QED BY <2>1, <2>2, <2>3 DEF Lent
<1>18. Held(v, r, M, lo, top, top)
  BY DEF Data, Held
<1>19. Data(v, r, M, lo, top, top, base, h, m, w)
  <2>1. lo <= top /\ lo <= top + 1
    BY <1>1
  <2> HIDE DEF top
  <2> QED BY <1>12, <1>14, <1>15, <1>16, <1>17, <1>18, <2>1 DEF Data
<1>20. HasData(v, r, h, m, w)
  <2> HIDE DEF top
  <2> QED BY <1>19 DEF HasData
<1> QED BY <1>3, <1>6, <1>11, <1>12, <1>20 DEF o, SameControl

\* What AllocateWritingHead leaves alone, besides what the stream holds.
SameCounts(v, q) ==
    /\ v.notConsumed = q.notConsumed /\ v.notFlushed = q.notFlushed
    /\ v.writerComplete = q.writerComplete /\ v.readerComplete = q.readerComplete
    /\ v.lastExamined = -1 <=> q.lastExamined = -1

\* AllocateWritingHeadSync, in each of its cases.
LEMMA AllocateData ==
    ASSUME NEW q, NEW r, NEW h, NEW m, NEW w, HasData(q, r, h, m, w), q.lastExamined # -1,
           NEW hint \in Nat, HasRoom(q)
    PROVE  LET v == AllocateWritingHead(q, hint)
           IN  HasData(v, r, h, m, w) /\ SameCounts(v, q) /\ v.lastExamined # -1
<1> DEFINE o == [q EXCEPT !.writing = TRUE]
           a == Grow(o)
           v == AllocateWritingHead(q, hint)
<1> SUFFICES HasData(v, r, h, m, w) /\ SameCounts(v, q) /\ v.lastExamined # -1
  OBVIOUS
<1>1. PICK L, lo, hi, t, base : Data(q, r, L, lo, hi, t, base, h, m, w)
  BY DEF HasData
<1>2. q \in PipeType /\ lo \in Nat /\ hi \in Nat
  BY <1>1, DataOrder DEF Data
<1>3. /\ o \in PipeType /\ o.writingHead = q.writingHead /\ o.pool = q.pool /\ o.allocated = q.allocated
      /\ SameCounts(o, q) /\ o.lastExamined = q.lastExamined
  <2>1. o \in PipeType
    BY <1>2 DEF PipeType
  <2> QED BY <1>2, <2>1 DEF PipeType, SameCounts
<1>4. CASE lo <= hi
  <2>1. q.writingHead = L[hi] /\ L[hi] \in Segments /\ L[hi] # Null
    BY <1>1, <1>4, DataFacts
  <2>2. Data(o, r, L, lo, hi, t, base, h, m, w)
    BY <1>1, <1>4, WritingData
  <2>3. CASE o.memory.length > 0 /\ o.memory.length >= hint
    <3>1. v = o
      BY <1>3, <2>1, <2>3 DEF AllocateWritingHead
    <3> HIDE DEF o, v
    <3> QED BY <1>3, <2>2, <3>1 DEF HasData
  <2>4. CASE ~(o.memory.length > 0 /\ o.memory.length >= hint)
    <3>1. Data(a, r, L, lo, hi, t, base, h, m, w)
      <4> HIDE DEF o
      <4> QED BY <1>4, <2>2, GrowData
    <3>2. /\ a \in PipeType /\ a.buffered = 0 /\ a.writingHead = L[hi]
          /\ a.pool = q.pool /\ a.allocated = q.allocated /\ SameCounts(a, q) /\ a.lastExamined = q.lastExamined
      <4>1. o.writingHead \in Segments
        BY <1>3, <2>1
      <4> HIDE DEF o
      <4> QED BY <1>3, <2>1, <4>1, GrowIs DEF SameCounts
    <3>3. a = [AdvanceEnd(o, o.writingHead, o.buffered) EXCEPT !.buffered = 0]
      BY DEF Grow
    <3>4. NextSegment(a) = NextSegment(o) /\ HasRoom(a)
      <4> HIDE DEF a, o
      <4> QED BY <1>3, <3>2 DEF NextSegment, HasRoom
    <3>5. CASE a.segments[a.writingHead].end = 0
      <4>1. v = RentMemory(a, L[hi], hint)
        BY <1>3, <2>1, <2>4, <3>2, <3>3, <3>5 DEF AllocateWritingHead
      <4>2. HasData(RentMemory(a, L[hi], hint), r, h, m, w)
        <5>1. a.segments[L[hi]].end = 0
          BY <3>2, <3>5
        <5> HIDE DEF a
        <5>2. Data(RentMemory(a, L[hi], hint), r, L, lo, hi, t, base, h, m, w)
          BY <1>4, <3>1, <3>2, <5>1, RenewData
        <5> QED BY <5>2 DEF HasData
      <4>3. SameButMemory(RentMemory(a, L[hi], hint), a)
        <5> HIDE DEF a
        <5> QED BY <2>1, <3>2, RentMemoryIs
      <4> HIDE DEF a, v, o
      <4> QED BY <3>2, <4>1, <4>2, <4>3 DEF SameCounts, SameButMemory
    <3>6. CASE a.segments[a.writingHead].end # 0
      <4>1. v = WithSegment(a, hint)
        <5>1. v = [SetNext(AllocateSegment(a, hint), a.writingHead, NextSegment(o)) EXCEPT !.writingHead = NextSegment(o)]
          BY <1>3, <2>1, <2>4, <3>3, <3>6 DEF AllocateWritingHead
        <5> HIDE DEF a, o, v
        <5> QED BY <3>4, <5>1 DEF WithSegment
      <4>2. HasData(WithSegment(a, hint), r, h, m, w)
        <5> HIDE DEF a
        <5> QED BY <1>4, <3>1, <3>2, <3>4, AppendData
      <4>3. SameCounts(WithSegment(a, hint), a) /\ WithSegment(a, hint).lastExamined = a.lastExamined
        <5> HIDE DEF a
        <5> DEFINE s == NextSegment(a)
                   b == AllocateSegment(a, hint)
                   c == SetNext(b, a.writingHead, s)
        <5>1. s \in Segments /\ PoolAfter(a) \in Seq(Segments) /\ \A i \in lo .. hi : L[i] # s
          <6>1. Pooled(a, L, lo, hi) /\ L \in Lists /\ lo <= hi + 1
            BY <3>1, DataOrder DEF Data
          <6> QED BY <1>2, <3>2, <3>4, <6>1, PooledAppend
        <5>2. b \in PipeType /\ SameControl(b, a)
          BY <3>2, <5>1, AllocateSegmentIs
        <5>3. a.writingHead \in Segments /\ a.writingHead # s
          BY <1>2, <1>4, <2>1, <3>2, <5>1
        <5>4. c \in PipeType /\ SameControl(c, b)
          <6> HIDE DEF b, s
          <6> QED BY <5>1, <5>2, <5>3, SetNextIs
        <5>5. WithSegment(a, hint) = [c EXCEPT !.writingHead = s]
          BY DEF WithSegment
        <5> HIDE DEF b, c, s
        <5>6. /\ WithSegment(a, hint).notConsumed = c.notConsumed /\ WithSegment(a, hint).notFlushed = c.notFlushed
              /\ WithSegment(a, hint).writerComplete = c.writerComplete /\ WithSegment(a, hint).readerComplete = c.readerComplete
              /\ WithSegment(a, hint).lastExamined = c.lastExamined
          BY <5>4, <5>5 DEF PipeType
        <5> QED BY <5>2, <5>4, <5>6 DEF SameControl, SameCounts
      <4> HIDE DEF a, v, o
      <4> QED BY <3>2, <4>1, <4>2, <4>3 DEF SameCounts
    <3> QED BY <3>5, <3>6
  <2> QED BY <2>3, <2>4
<1>5. CASE ~(lo <= hi)
  <2>1. q.writingHead = Null
    BY <1>1, <1>5 DEF Data, Vacant
  <2>2. v = WithFirst(o, hint)
    BY <1>3, <2>1 DEF AllocateWritingHead, WithFirst
  <2>3. /\ HasData(WithFirst(o, hint), r, h, m, w)
        /\ WithFirst(o, hint).notConsumed = q.notConsumed /\ WithFirst(o, hint).notFlushed = q.notFlushed
        /\ WithFirst(o, hint).lastExamined = 0
        /\ WithFirst(o, hint).writerComplete = q.writerComplete /\ WithFirst(o, hint).readerComplete = q.readerComplete
    BY <1>1, <1>5, FirstData
  <2> HIDE DEF o, v
  <2> QED BY <2>2, <2>3 DEF SameCounts
<1> QED BY <1>4, <1>5

-----------------------------------------------------------------------------
(* Advance of the writer.                                                  *)

\* The writer puts n bytes behind the w that it has written.
Put(q, w, n) ==
    [q EXCEPT
         !.segments[q.memory.segment].memory =
             [i \in DOMAIN @ |-> IF i \in q.memory.from + 1 .. q.memory.from + n
                                 THEN w + i - q.memory.from ELSE @[i]],
         !.notFlushed = @ + n, !.buffered = @ + n,
         !.memory = IF n = q.memory.length THEN NoMemory
                    ELSE [q.memory EXCEPT !.from = q.memory.from + n, !.length = q.memory.length - n]]

\* The bytes the writer fills are the next of the stream.
LEMMA PutData ==
    ASSUME NEW q, NEW r, NEW h, NEW m, NEW w, HasData(q, r, h, m, w),
           NEW n \in Nat, n > 0, n <= q.memory.length, q.writing
    PROVE  LET v == Put(q, w, n)
           IN  /\ HasData(v, r, h, m, w + n)
               /\ v.notConsumed = q.notConsumed /\ v.notFlushed = q.notFlushed + n /\ v.lastExamined = q.lastExamined
               /\ v.writerComplete = q.writerComplete /\ v.readerComplete = q.readerComplete
<1> DEFINE s == q.memory.segment
<1>1. PICK L, lo, hi, t, base : Data(q, r, L, lo, hi, t, base, h, m, w)
  BY DEF HasData
<1>2. q \in PipeType /\ lo \in Nat /\ hi \in Nat /\ base \in Nat /\ Lent(q, L, lo, hi, m, w) /\ w \in Nat /\ m \in Nat
  BY <1>1, DataOrder DEF Data
<1>3. q.memory \in MemoryType /\ q.memory.from \in Nat /\ q.memory.length \in Nat /\ q.memory.length > 0
      /\ q.notFlushed \in Nat /\ q.buffered \in Nat
  BY <1>2, PipeFields DEF MemoryType
<1>4. /\ lo <= hi /\ s = L[hi] /\ q.memory.from = Filled(q, L[hi])
      /\ q.memory.from + q.memory.length = Len(q.segments[L[hi]].memory)
  BY <1>2, <1>3 DEF Lent
<1> DEFINE old == q.segments[s].memory
           from == q.memory.from
           new == [i \in DOMAIN old |-> IF i \in from + 1 .. from + n THEN w + i - from ELSE old[i]]
           u == [q.segments[s] EXCEPT !.memory = new]
           all == [q.segments EXCEPT ![s] = u]
           lent == IF n = q.memory.length THEN NoMemory
                   ELSE [q.memory EXCEPT !.from = from + n, !.length = q.memory.length - n]
           v == [q EXCEPT !.segments = all, !.notFlushed = q.notFlushed + n, !.buffered = q.buffered + n, !.memory = lent]
<1>5. /\ Placed(q, L, lo, hi, t, base, h, m, w) /\ Stored(q, L, lo, hi, base)
      /\ t \in lo .. hi /\ lo \in lo .. hi /\ hi \in lo .. hi /\ q.writingHead = s /\ s \in Segments
      /\ q.segments[s] \in SegmentType /\ Filled(q, s) = q.segments[s].end + q.buffered
  <2> HIDE DEF s
  <2> QED BY <1>1, <1>4, DataFacts
<1>6. v = Put(q, w, n)
  BY DEF Put
<1> HIDE DEF s
<1>7. /\ old \in Seq(Nat) /\ Len(old) \in Nat /\ DOMAIN old = 1 .. Len(old) /\ q.segments[s].end \in Nat
      /\ q.segments[s].running \in Nat
  <2>1. old \in Seq(Nat) /\ q.segments[s].end \in Nat /\ q.segments[s].running \in Nat
    BY <1>5 DEF SegmentType
  <2> QED BY <2>1, LenProperties
<1> HIDE DEF old, from
<1>8. from \in Nat /\ from + n <= Len(old) /\ from = q.segments[s].end + q.buffered
  BY <1>3, <1>4, <1>5 DEF from, old
<1>9. /\ new \in Seq(Nat) /\ Len(new) = Len(old)
      /\ \A i \in 1 .. Len(old) : new[i] = IF i \in from + 1 .. from + n THEN w + i - from ELSE old[i]
  <2>1. \A i \in 1 .. Len(old) : old[i] \in Nat
    BY <1>7, ElementOfSeq
  <2>2. \A i \in from + 1 .. from + n : w + i - from \in Nat
    BY <1>2, <1>8
  <2>3. new \in [1 .. Len(old) -> Nat]
    BY <1>7, <2>1, <2>2
  <2>4. \A i \in 1 .. Len(old) : new[i] = IF i \in from + 1 .. from + n THEN w + i - from ELSE old[i]
    BY <1>7
  <2> HIDE DEF new
  <2> QED BY <1>7, <2>3, <2>4, IsSeq
<1> HIDE DEF new
<1>10. /\ u \in SegmentType /\ u.memory = new /\ u.next = q.segments[s].next
       /\ u.end = q.segments[s].end /\ u.running = q.segments[s].running
  BY <1>5, <1>9, SegmentWith
<1> HIDE DEF u
<1>11. all \in [Segments -> SegmentType]
  <2>1. q.segments \in [Segments -> SegmentType]
    BY <1>2, PipeFields DEF SegmentsTyped
  <2> QED BY <1>5, <1>10, <2>1
<1>12. /\ lent \in MemoryType
       /\ lent.length > 0 => /\ lent.segment = q.memory.segment /\ lent.from = from + n
                             /\ lent.length = q.memory.length - n
  <2>1. CASE n = q.memory.length
    <3>1. lent = NoMemory
      BY <2>1
    <3>2. NoMemory \in MemoryType /\ NoMemory.length = 0
      BY DEF NoMemory, MemoryType
    <3> QED BY <3>1, <3>2
  <2>2. CASE n # q.memory.length
    <3>1. from + n \in Nat /\ q.memory.length - n \in Nat
      BY <1>3, <1>8
    <3>2. lent = [q.memory EXCEPT !.from = from + n, !.length = q.memory.length - n]
      BY <2>2
    <3> HIDE DEF lent
    <3> QED BY <1>3, <3>1, <3>2 DEF MemoryType
  <2> QED BY <2>1, <2>2
<1>13. q.notFlushed + n \in Nat /\ q.buffered + n \in Nat
  BY <1>3
<1> HIDE DEF all, lent
<1>14. v \in PipeType
  BY <1>2, <1>11, <1>12, <1>13 DEF PipeType
<1>15. /\ v.allocated = q.allocated /\ v.pool = q.pool /\ v.memory = lent /\ v.segments = all /\ v.writingHead = q.writingHead
       /\ v.notConsumed = q.notConsumed /\ v.notFlushed = q.notFlushed + n /\ v.buffered = q.buffered + n
       /\ v.lastExamined = q.lastExamined /\ v.readingHead = q.readingHead /\ v.readingTail = q.readingTail
       /\ v.writing = q.writing /\ v.writerComplete = q.writerComplete /\ v.readerComplete = q.readerComplete
  BY <1>2 DEF PipeType
<1> HIDE DEF v
<1>16. w = base + q.segments[s].running + from
  BY <1>4, <1>5 DEF Placed, Number, from
<1>17. LastBecomes(q, v, L, hi, base, u)
  <2>1. u.end + v.buffered = from + n
    BY <1>3, <1>7, <1>8, <1>10, <1>15
  <2>2. \A k \in 1 .. from : old[k] = base + q.segments[s].running + k
    <3>1. \A k \in 1 .. Filled(q, s) : q.segments[s].memory[k] = Number(q, base, s, k)
      BY <1>4, <1>5 DEF Stored, Filling
    <3> QED BY <1>4, <3>1 DEF Number, from, old
  <2>3. ASSUME NEW k \in 1 .. from + n PROVE new[k] = base + q.segments[s].running + k
    <3>1. k \in 1 .. Len(old)
      BY <1>7, <1>8
    <3>2. CASE k \in 1 .. from
      <4>1. k \notin from + 1 .. from + n
        BY <1>8, <3>2
      <4> QED BY <1>9, <2>2, <3>1, <3>2, <4>1
    <3>3. CASE k \notin 1 .. from
      <4>1. k \in from + 1 .. from + n
        BY <1>8, <3>3
      <4>2. new[k] = w + k - from
        BY <1>9, <3>1, <4>1
      <4>3. \A a, b, c, d \in Nat : a + b + c + d - c = a + b + d
        OBVIOUS
      <4>4. base \in Nat /\ q.segments[s].running \in Nat /\ from \in Nat /\ k \in Nat
        BY <1>2, <1>7, <1>8
      <4> QED BY <1>16, <4>2, <4>3, <4>4
    <3> QED BY <3>2, <3>3
  <2> QED BY <1>4, <1>5, <1>8, <1>9, <1>10, <1>13, <1>15, <2>1, <2>3, SMTT(30) DEF LastBecomes, all
<1>18. /\ Stored(v, L, lo, hi, base) /\ v.segments[s] = u /\ Filled(v, s) = u.end + v.buffered
       /\ \A i \in lo .. hi : i # hi => v.segments[L[i]] = q.segments[L[i]]
  BY <1>4, <1>5, <1>17, StoredLast
<1>19. \A i \in lo .. hi : /\ v.segments[L[i]].running = q.segments[L[i]].running
                           /\ v.segments[L[i]].end = q.segments[L[i]].end /\ q.segments[L[i]].end \in Nat
  <2> SUFFICES ASSUME NEW i \in lo .. hi
               PROVE  /\ v.segments[L[i]].running = q.segments[L[i]].running
                      /\ v.segments[L[i]].end = q.segments[L[i]].end /\ q.segments[L[i]].end \in Nat
    OBVIOUS
  <2>1. q.segments[L[i]].end \in Nat
    BY <1>5, StoredFacts
  <2> QED BY <1>4, <1>10, <1>18, <2>1
<1>20. Filled(v, s) = from + n
  BY <1>3, <1>7, <1>8, <1>10, <1>15, <1>18, SMTT(30)
<1>21. Pooled(v, L, lo, hi)
  BY <1>1, <1>15 DEF Data, Pooled
<1>22. Placed(v, L, lo, hi, t, base, h, m, w + n)
  <2>1. w + n = Number(v, base, L[hi], Filled(v, L[hi]))
    <3>1. Number(v, base, L[hi], Filled(v, L[hi])) = base + q.segments[s].running + (from + n)
      BY <1>4, <1>5, <1>19, <1>20 DEF Number
    <3>2. \A a, b, c, d \in Nat : a + b + c + d = a + b + (c + d)
      OBVIOUS
    <3>3. base \in Nat /\ q.segments[s].running \in Nat /\ from \in Nat
      BY <1>2, <1>7, <1>8
    <3> QED BY <1>16, <3>1, <3>2, <3>3
  <2> QED BY <1>5, <1>15, <1>19, <2>1 DEF Placed, Number
<1>23. Lent(v, L, lo, hi, m, w + n)
  <2>1. v.notFlushed = (w + n) - m /\ v.writing
    BY <1>2, <1>15 DEF Lent
  <2>2. v.memory.length > 0 => v.memory.segment = L[hi] /\ v.memory.from = Filled(v, L[hi])
    <3>1. v.memory.length > 0 => v.memory.segment = q.memory.segment /\ v.memory.from = from + n
      BY <1>12, <1>15
    <3>2. q.memory.segment = L[hi] /\ Filled(v, L[hi]) = from + n
      BY <1>4, <1>20 DEF s
    <3> QED BY <3>1, <3>2
  <2>3. v.memory.length > 0 => v.memory.from + v.memory.length = Len(v.segments[L[hi]].memory)
    <3>1. Len(v.segments[L[hi]].memory) = Len(old)
      BY <1>4, <1>9, <1>10, <1>18
    <3>2. from + q.memory.length = Len(old)
      BY <1>4 DEF from, old
    <3>3. v.memory.length > 0 => v.memory.from = from + n /\ v.memory.length = q.memory.length - n
      BY <1>12, <1>15
    <3>4. from + n + (q.memory.length - n) = from + q.memory.length
      BY <1>3, <1>8
    <3> QED BY <3>1, <3>2, <3>3, <3>4
  <2>4. v.memory.length > 0 =>
            /\ lo <= hi /\ v.memory.segment = L[hi] /\ v.memory.from = Filled(v, L[hi])
            /\ v.memory.from + v.memory.length = Len(v.segments[L[hi]].memory)
    BY <1>4, <2>2, <2>3
  <2>5. ~v.writing => v.buffered = 0 /\ v.notFlushed = 0
    BY <2>1
  <2>6. v.notFlushed = (w + n) - m
    BY <2>1
  <2> QED BY <2>4, <2>5, <2>6 DEF Lent
<1>24. Held(v, r, L, lo, hi, t)
  <2>1. Extends(q, v, L, L, lo, hi, t, t)
    <3>1. (\A i \in lo .. t : i \in lo .. hi) /\ t \in Nat
      BY <1>2, <1>5
    <3>2. q.readingTail.index \in Nat
      BY <1>2, PipeFields, PositionIs
    <3>3. v.readingHead = q.readingHead /\ v.readingTail = q.readingTail /\ lo <= hi /\ lo \in Nat
      BY <1>2, <1>4, <1>15
    <3> QED BY <1>19, <3>1, <3>2, <3>3 DEF Extends
  <2>2. Held(q, r, L, lo, hi, t)
    BY <1>1 DEF Data
  <2> QED BY <2>1, <2>2, HeldStays
<1>25. HasData(v, r, h, m, w + n)
  <2>1. Data(v, r, L, lo, hi, t, base, h, m, w + n)
    BY <1>2, <1>4, <1>14, <1>18, <1>21, <1>22, <1>23, <1>24 DEF Data
  <2> QED BY <2>1 DEF HasData
<1> QED BY <1>6, <1>15, <1>25

-----------------------------------------------------------------------------
(* Commit.                                                                 *)

\* With nothing to flush, only the flag changes.
LEMMA CommitNothing ==
    ASSUME NEW q, NEW r, NEW h, NEW m, NEW w, HasData(q, r, h, m, w), q.notFlushed = 0
    PROVE  LET v == [q EXCEPT !.writing = FALSE]
           IN  HasData(v, r, h, w, w) /\ v = Commit(q) /\ m = w
<1> DEFINE v == [q EXCEPT !.writing = FALSE]
<1>1. PICK L, lo, hi, t, base : Data(q, r, L, lo, hi, t, base, h, m, w)
  BY DEF HasData
<1>2. q \in PipeType /\ lo \in Nat /\ hi \in Nat /\ w \in Nat /\ m \in Nat /\ Lent(q, L, lo, hi, m, w)
  BY <1>1, DataOrder DEF Data
<1>3. m = w
  <2>1. q.notFlushed = w - m
    BY <1>2 DEF Lent
  <2> QED BY <1>2, <2>1
<1>4. v \in PipeType
  BY <1>2 DEF PipeType
<1>5. /\ v.segments = q.segments /\ v.allocated = q.allocated /\ v.pool = q.pool
      /\ v.notConsumed = q.notConsumed /\ v.notFlushed = q.notFlushed /\ v.buffered = q.buffered
      /\ v.lastExamined = q.lastExamined /\ v.readingHead = q.readingHead /\ v.readingTail = q.readingTail
      /\ v.writingHead = q.writingHead /\ v.memory = q.memory /\ v.writing = FALSE
  BY <1>2 DEF PipeType
<1>6. v = Commit(q)
  BY DEF Commit
<1> HIDE DEF v
<1>7. \A s : Filled(v, s) = Filled(q, s)
  BY <1>5 DEF Filled
<1>8. Stored(v, L, lo, hi, base)
  <2>1. Stored(q, L, lo, hi, base)
    BY <1>1 DEF Data
  <2>2. v.segments = q.segments /\ v.buffered \in Nat /\ \A i \in lo .. hi : Filled(v, L[i]) = Filled(q, L[i])
    BY <1>5, <1>7, <2>1 DEF Stored
  <2> QED BY <2>1, <2>2, SameStored
<1>9. Pooled(v, L, lo, hi) /\ Held(v, r, L, lo, hi, t)
  BY <1>1, <1>5 DEF Data, Pooled, Held
<1>10. CASE lo <= hi
  <2>1. /\ Placed(q, L, lo, hi, t, base, h, m, w) /\ Stored(q, L, lo, hi, base) /\ t \in lo .. hi /\ hi \in lo .. hi
        /\ Filled(q, L[hi]) = q.segments[L[hi]].end + q.buffered
    BY <1>1, <1>10, DataFacts
  <2>2. Placed(v, L, lo, hi, t, base, h, m, w)
    BY <1>5, <1>7, <2>1 DEF Placed, Number
  <2>3. /\ q.segments[L[hi]].end \in Nat /\ q.segments[L[t]].end \in Nat /\ q.buffered \in Nat
        /\ q.readingTail.index \in Nat /\ q.readingTail.index <= q.segments[L[t]].end
    <3>1. q.buffered \in Nat /\ q.readingTail.index \in Nat
      BY <1>2, PipeFields, PositionIs
    <3> QED BY <2>1, <3>1, StoredFacts DEF Placed
  <2>4. q.buffered = 0
    <3>1. IF t = hi THEN q.readingTail.index <= q.segments[L[hi]].end
                    ELSE q.readingTail.index <= q.segments[L[t]].end
      BY <2>3
    <3>2. t <= hi
      BY <1>2, <2>1
    <3>3. Number(q, base, L[t], q.readingTail.index) <= Number(q, base, L[hi], q.segments[L[hi]].end)
      BY <2>1, <2>3, <3>1, <3>2, NumberOrder
    <3>4. m = Number(q, base, L[t], q.readingTail.index) /\ w = Number(q, base, L[hi], Filled(q, L[hi]))
      BY <2>1 DEF Placed
    <3>5. w = base + q.segments[L[hi]].running + Filled(q, L[hi])
          /\ w <= base + q.segments[L[hi]].running + q.segments[L[hi]].end
      BY <1>3, <3>3, <3>4 DEF Number
    <3>6. base \in Nat /\ q.segments[L[hi]].running \in Nat
      <4>1. base \in Nat
        BY <1>1, DataOrder
      <4> QED BY <2>1, <4>1, StoredFacts
    <3>7. \A a, b, c, d \in Nat : a + b + (c + d) <= a + b + c => d = 0
      OBVIOUS
    <3> QED BY <2>1, <2>3, <3>5, <3>6, <3>7
  <2>5. Lent(v, L, lo, hi, m, w)
    BY <1>2, <1>5, <1>7, <2>4 DEF Lent
  <2> QED BY <1>1, <1>3, <1>4, <1>6, <1>8, <1>9, <1>10, <2>2, <2>5 DEF Data, HasData, v
<1>11. CASE ~(lo <= hi)
  <2>1. Vacant(q, base, h, m, w)
    BY <1>1, <1>11 DEF Data
  <2>2. Vacant(v, base, h, m, w)
    BY <1>5, <2>1 DEF Vacant
  <2>3. Lent(v, L, lo, hi, m, w)
    BY <1>2, <1>5, <1>7, <2>1 DEF Lent, Vacant
  <2> QED BY <1>1, <1>3, <1>4, <1>6, <1>8, <1>9, <1>11, <2>2, <2>3 DEF Data, HasData, v
<1> QED BY <1>10, <1>11

\* What is flushed can be read: the reading tail moves to the end of the list.
LEMMA CommitSome ==
    ASSUME NEW q, NEW r, NEW h, NEW m, NEW w, HasData(q, r, h, m, w), q.notFlushed # 0
    PROVE  LET v == Commit(q)
           IN  /\ HasData(v, r, h, w, w)
               /\ v.notConsumed = q.notConsumed + q.notFlushed /\ v.notFlushed = 0 /\ ~v.writing
               /\ v.lastExamined = q.lastExamined
               /\ v.writerComplete = q.writerComplete /\ v.readerComplete = q.readerComplete
<1>1. PICK L, lo, hi, t, base : Data(q, r, L, lo, hi, t, base, h, m, w)
  BY DEF HasData
<1>2. q \in PipeType /\ lo \in Nat /\ hi \in Nat /\ base \in Nat /\ w \in Nat /\ m \in Nat /\ m <= w
      /\ Lent(q, L, lo, hi, m, w) /\ q.notFlushed = w - m
  BY <1>1, DataOrder DEF Data, Lent
<1>3. lo <= hi
  <2> SUFFICES ASSUME ~(lo <= hi) PROVE FALSE
    OBVIOUS
  <2>1. w = m
    BY <1>1 DEF Data, Vacant
  <2> QED BY <1>2, <2>1
<1> DEFINE s == L[hi]
           g == Grow(q)
           tail == Position(s, g.segments[s].end)
           v == [q EXCEPT !.writing = FALSE, !.segments = g.segments, !.readingTail = tail,
                          !.notConsumed = q.notConsumed + q.notFlushed, !.notFlushed = 0, !.buffered = 0]
<1>4. /\ Placed(q, L, lo, hi, t, base, h, m, w) /\ Stored(q, L, lo, hi, base)
      /\ t \in lo .. hi /\ lo \in lo .. hi /\ hi \in lo .. hi /\ q.writingHead = s
      /\ s \in Segments /\ Filled(q, s) = q.segments[s].end + q.buffered
  BY <1>1, <1>3, DataFacts
<1>5. /\ Stored(g, L, lo, hi, base)
      /\ g.segments[s].end = Filled(q, s) /\ Filled(g, s) = Filled(q, s)
      /\ g.segments[s].running = q.segments[s].running
      /\ g.segments[s].memory = q.segments[s].memory
      /\ q.segments[s].end <= g.segments[s].end
      /\ \A i \in lo .. hi : i # hi => g.segments[L[i]] = q.segments[L[i]]
  BY <1>1, <1>3, StoredGrow
<1>6. /\ g \in PipeType /\ g.buffered = 0 /\ g.writingHead = s
      /\ g.segments = [q.segments EXCEPT ![s] = [q.segments[s] EXCEPT !.end = q.segments[s].end + q.buffered]]
  BY <1>2, <1>4, GrowIs
<1>7. /\ q.notConsumed \in Nat /\ q.notFlushed \in Nat /\ q.lastExamined \in Nat \cup {-1}
      /\ q.readingHead \in PositionType /\ q.readingTail \in PositionType
  BY <1>2, PipeFields
<1>8. Commit(q) = v
  <2> DEFINE u == [q.segments EXCEPT ![s] = [q.segments[s] EXCEPT !.end = q.segments[s].end + q.buffered]]
             x == [q EXCEPT !.writing = FALSE, !.segments = u, !.readingTail = Position(s, u[s].end),
                            !.notConsumed = q.notConsumed + q.notFlushed, !.notFlushed = 0, !.buffered = 0]
  <2>1. Commit(q) = x
    <3> HIDE DEF s
    <3> DEFINE o == [q EXCEPT !.writing = FALSE]
               y == [o EXCEPT !.segments = u]
    <3>1. /\ o.segments = q.segments /\ o.writingHead = s /\ o.buffered = q.buffered
          /\ o.notConsumed = q.notConsumed /\ o.notFlushed = q.notFlushed /\ o \in PipeType
      BY <1>2, <1>4 DEF PipeType, s
    <3> HIDE DEF o
    <3>2. y = AdvanceEnd(o, o.writingHead, o.buffered)
      BY <3>1 DEF AdvanceEnd
    <3>3. /\ y.segments = u /\ y.writingHead = s
          /\ y.notConsumed = q.notConsumed /\ y.notFlushed = q.notFlushed
      <4> HIDE DEF u
      <4> QED BY <3>1 DEF PipeType
    <3>4. Commit(q) = [y EXCEPT !.readingTail = Position(s, u[s].end), !.notConsumed = q.notConsumed + q.notFlushed,
                                !.notFlushed = 0, !.buffered = 0]
      <4>1. q.writingHead = s /\ q.buffered = o.buffered
        BY <1>4, <3>1 DEF s
      <4> HIDE DEF y, u
      <4>2. Commit(q) = [y EXCEPT !.readingTail = Position(y.writingHead, y.segments[y.writingHead].end),
                                  !.notConsumed = y.notConsumed + y.notFlushed, !.notFlushed = 0, !.buffered = 0]
        <5>1. y = AdvanceEnd([q EXCEPT !.writing = FALSE], q.writingHead, q.buffered)
          BY <3>1, <3>2, <4>1 DEF o
        <5> QED BY <5>1 DEF Commit
      <4> QED BY <3>3, <4>2
    <3>5. [y EXCEPT !.readingTail = Position(s, u[s].end), !.notConsumed = q.notConsumed + q.notFlushed,
                    !.notFlushed = 0, !.buffered = 0] = x
      <4> HIDE DEF u
      <4> QED BY <1>2 DEF PipeType, o
    <3> QED BY <3>4, <3>5
  <2>2. x = v
    <3>1. g.segments = u
      BY <1>6
    <3> HIDE DEF g, u
    <3> QED BY <3>1
  <2> QED BY <2>1, <2>2
<1> SUFFICES /\ HasData(v, r, h, w, w)
             /\ v.notConsumed = q.notConsumed + q.notFlushed /\ v.notFlushed = 0 /\ ~v.writing
             /\ v.lastExamined = q.lastExamined
             /\ v.writerComplete = q.writerComplete /\ v.readerComplete = q.readerComplete
  <2> HIDE DEF v
  <2> QED BY <1>8
<1> HIDE DEF s, g
<1>9. g.segments \in [Segments -> SegmentType] /\ g.segments[s].end \in Nat
  <2>1. g.segments \in [Segments -> SegmentType]
    BY <1>6, PipeFields DEF SegmentsTyped
  <2>2. g.segments[s] \in SegmentType
    BY <1>4, <2>1
  <2> QED BY <2>1, <2>2 DEF SegmentType
<1>10. tail \in PositionType /\ tail.segment = s /\ tail.index = g.segments[s].end
  BY <1>4, <1>9 DEF PositionType, Position
<1>11. q.notConsumed + q.notFlushed \in Nat
  BY <1>7
<1> HIDE DEF tail
<1>12. v \in PipeType
  BY <1>2, <1>9, <1>10, <1>11 DEF PipeType
<1>13. /\ v.segments = g.segments /\ v.allocated = q.allocated /\ v.pool = q.pool
       /\ v.notConsumed = q.notConsumed + q.notFlushed /\ v.notFlushed = 0 /\ v.buffered = 0
       /\ v.lastExamined = q.lastExamined /\ v.readingHead = q.readingHead /\ v.readingTail = tail
       /\ v.writingHead = q.writingHead /\ v.memory = q.memory /\ v.writing = FALSE
       /\ v.writerComplete = q.writerComplete /\ v.readerComplete = q.readerComplete
  BY <1>2 DEF PipeType
<1> HIDE DEF v
<1>14. \A x : Filled(v, x) = Filled(g, x)
  BY <1>4, <1>6, <1>13 DEF Filled
<1>15. Stored(v, L, lo, hi, base)
  <2>1. Stored(g, L, lo, hi, base)
    BY <1>1, <1>5
  <2>2. v.segments = g.segments /\ v.buffered \in Nat /\ \A i \in lo .. hi : Filled(v, L[i]) = Filled(g, L[i])
    BY <1>13, <1>14, <2>1 DEF Stored
  <2> QED BY <2>1, <2>2, SameStored
<1>16. Pooled(v, L, lo, hi)
  BY <1>1, <1>13 DEF Data, Pooled
<1>17. ASSUME NEW i \in lo .. hi
       PROVE  /\ v.segments[L[i]].running = q.segments[L[i]].running
              /\ q.segments[L[i]].end \in Nat /\ v.segments[L[i]].end \in Nat /\ q.segments[L[i]].end <= v.segments[L[i]].end
  <2>1. q.segments[L[i]].end \in Nat /\ g.segments[L[i]].end \in Nat
    BY <1>4, <1>5, StoredFacts
  <2> QED BY <1>5, <1>13, <2>1 DEF s
<1>18. q.readingHead.index \in Nat /\ q.readingTail.index \in Nat
  BY <1>7, PositionIs
<1>19. Placed(v, L, lo, hi, hi, base, h, w, w)
  <2>1. q.readingHead.index <= v.segments[L[lo]].end
    <3>1. q.readingHead.index <= q.segments[L[lo]].end
      BY <1>4 DEF Placed
    <3>2. /\ q.segments[L[lo]].end \in Nat /\ v.segments[L[lo]].end \in Nat
          /\ q.segments[L[lo]].end <= v.segments[L[lo]].end
      BY <1>4, <1>17
    <3> QED BY <1>18, <3>1, <3>2
  <2>2. v.readingTail.segment = L[hi] /\ v.readingTail.index = v.segments[L[hi]].end
    BY <1>10, <1>13 DEF s
  <2>3. v.segments[L[hi]].end <= v.segments[L[hi]].end
    BY <1>4, <1>17
  <2>4. hi = lo => v.readingHead.index <= v.readingTail.index
    BY <1>13, <2>1, <2>2
  <2>5. h = Number(v, base, L[lo], v.readingHead.index)
    <3>1. v.segments[L[lo]].running = q.segments[L[lo]].running
      BY <1>4, <1>17
    <3> QED BY <1>4, <1>13, <3>1 DEF Placed, Number
  <2>6. w = Number(v, base, L[hi], v.readingTail.index) /\ w = Number(v, base, L[hi], Filled(v, L[hi]))
    <3>1. w = Number(q, base, L[hi], Filled(q, L[hi]))
      BY <1>4 DEF Placed
    <3>2. v.segments[L[hi]].running = q.segments[L[hi]].running
      BY <1>4, <1>17
    <3>3. Filled(v, L[hi]) = Filled(q, L[hi]) /\ v.readingTail.index = Filled(q, L[hi])
      BY <1>5, <1>13, <1>14, <2>2 DEF s
    <3> QED BY <3>1, <3>2, <3>3 DEF Number
  <2>7. v.lastExamined # -1 /\ v.notConsumed = w - base - v.lastExamined
    <3>1. q.lastExamined # -1 /\ q.notConsumed = m - base - q.lastExamined
      BY <1>4 DEF Placed
    <3>2. q.lastExamined \in Nat
      BY <1>7, <3>1
    <3> QED BY <1>2, <1>13, <3>1, <3>2
  <2> QED BY <1>4, <1>13, <2>1, <2>2, <2>3, <2>4, <2>5, <2>6, <2>7 DEF Placed
<1>20. Lent(v, L, lo, hi, w, w)
  <2>1. v.notFlushed = w - w
    BY <1>2, <1>13
  <2>2. Filled(v, L[hi]) = Filled(q, L[hi]) /\ v.segments[L[hi]].memory = q.segments[L[hi]].memory
    BY <1>5, <1>13, <1>14 DEF s
  <2> QED BY <1>2, <1>13, <2>1, <2>2 DEF Lent
<1>21. Held(v, r, L, lo, hi, hi)
  <2>1. Extends(q, v, L, L, lo, hi, t, hi)
    <3>1. \A i \in lo .. t : i \in lo .. hi
      BY <1>2, <1>4
    <3>2. t \in Nat /\ t <= hi
      BY <1>2, <1>4
    <3>3. hi = t => q.readingTail.index <= v.readingTail.index
      <4>1. hi = t => q.readingTail.index <= q.segments[L[hi]].end
        BY <1>4 DEF Placed
      <4>2. /\ q.segments[L[hi]].end \in Nat /\ v.segments[L[hi]].end \in Nat
            /\ q.segments[L[hi]].end <= v.segments[L[hi]].end
        BY <1>4, <1>17
      <4>3. v.readingTail.index = v.segments[L[hi]].end
        BY <1>10, <1>13 DEF s
      <4> QED BY <1>18, <4>1, <4>2, <4>3
    <3>4. v.readingTail.index \in Nat
      BY <1>9, <1>10, <1>13
    <3> QED BY <1>2, <1>3, <1>13, <1>17, <1>18, <3>1, <3>2, <3>3, <3>4 DEF Extends
  <2>2. Held(q, r, L, lo, hi, t)
    BY <1>1 DEF Data
  <2> QED BY <2>1, <2>2, HeldStays
<1>22. HasData(v, r, h, w, w)
  <2>1. Data(v, r, L, lo, hi, hi, base, h, w, w)
    BY <1>2, <1>3, <1>12, <1>15, <1>16, <1>19, <1>20, <1>21 DEF Data
  <2> QED BY <2>1 DEF HasData
<1> QED BY <1>13, <1>22

\* Commit flushes all that was written.
LEMMA CommitData ==
    ASSUME NEW q, NEW r, NEW h, NEW m, NEW w, HasData(q, r, h, m, w)
    PROVE  LET v == Commit(q)
           IN  /\ HasData(v, r, h, w, w)
               /\ v.notConsumed = q.notConsumed + q.notFlushed /\ v.notFlushed = 0 /\ ~v.writing
               /\ v.lastExamined = q.lastExamined
               /\ v.writerComplete = q.writerComplete /\ v.readerComplete = q.readerComplete
<1>1. CASE q.notFlushed = 0
  <2> DEFINE v == [q EXCEPT !.writing = FALSE]
  <2>1. HasData(v, r, h, w, w) /\ v = Commit(q)
    BY <1>1, CommitNothing
  <2>2. q \in PipeType
    BY DEF HasData, Data
  <2>3. q.notConsumed \in Nat
    BY <2>2, PipeFields
  <2>4. /\ v.notConsumed = q.notConsumed /\ v.notFlushed = q.notFlushed /\ v.writing = FALSE
        /\ v.lastExamined = q.lastExamined
        /\ v.writerComplete = q.writerComplete /\ v.readerComplete = q.readerComplete
    BY <2>2 DEF PipeType
  <2> HIDE DEF v
  <2>5. v.notConsumed = q.notConsumed + q.notFlushed
    BY <1>1, <2>3, <2>4
  <2> QED BY <1>1, <2>1, <2>4, <2>5
<1>2. CASE q.notFlushed # 0
  BY <1>2, CommitSome
<1> QED BY <1>1, <1>2

-----------------------------------------------------------------------------
(* The reader's result.                                                    *)

\* A reader that holds nothing, or what the old one held.
LEMMA OtherReader ==
    ASSUME NEW q, NEW r, NEW h, NEW m, NEW w, HasData(q, r, h, m, w), NEW x,
           x.at = "holding" => \/ x.begin = NoPosition /\ x.end = NoPosition
                               \/ r.at = "holding" /\ x.begin = r.begin /\ x.end = r.end
    PROVE  HasData(q, x, h, m, w)
<1>1. PICK L, lo, hi, t, base : Data(q, r, L, lo, hi, t, base, h, m, w)
  BY DEF HasData
<1>2. Held(q, r, L, lo, hi, t)
  BY <1>1 DEF Data
<1>3. Held(q, x, L, lo, hi, t)
  BY <1>2 DEF Held
<1>4. Data(q, x, L, lo, hi, t, base, h, m, w)
  BY <1>1, <1>3 DEF Data
<1> QED BY <1>4 DEF HasData

\* ReadAsync's result reaches from the reading head to the reading tail.
LEMMA ResultData ==
    ASSUME NEW q, NEW r, NEW h, NEW m, NEW w, HasData(q, r, h, m, w), q.lastExamined # -1, NEW x,
           q.readingHead.segment # Null => x.begin = q.readingHead /\ x.end = q.readingTail,
           q.readingHead.segment = Null => x.begin = NoPosition /\ x.end = NoPosition
    PROVE  HasData(q, x, h, m, w)
<1>1. PICK L, lo, hi, t, base : Data(q, r, L, lo, hi, t, base, h, m, w)
  BY DEF HasData
<1>2. q \in PipeType /\ lo \in Nat /\ hi \in Nat
  BY <1>1, DataOrder DEF Data
<1>3. Held(q, x, L, lo, hi, t)
  <2>1. CASE lo <= hi
    <3>1. Placed(q, L, lo, hi, t, base, h, m, w) /\ Stored(q, L, lo, hi, base) /\ t \in lo .. hi /\ lo \in lo .. hi
      BY <1>1, <2>1, DataFacts
    <3>2. L[lo] # Null
      BY <3>1, StoredFacts
    <3>3. x.begin = q.readingHead /\ x.end = q.readingTail
      BY <3>1, <3>2 DEF Placed
    <3>4. /\ t \in lo .. t /\ q.readingTail.segment = L[t] /\ q.readingTail.index <= q.segments[L[t]].end
          /\ t = lo => q.readingHead.index <= q.readingTail.index
      BY <1>2, <3>1 DEF Placed
    <3>5. q.readingTail \in PositionType /\ q.readingTail.index <= q.readingTail.index
      <4>1. q.readingTail \in PositionType
        BY <1>2, PipeFields
      <4>2. q.readingTail.index \in Nat
        BY <4>1, PositionIs
      <4> QED BY <4>1, <4>2
    <3> QED BY <2>1, <3>3, <3>4, <3>5 DEF Held
  <2>2. CASE ~(lo <= hi)
    <3>1. q.readingHead.segment = Null
      BY <1>1, <2>2 DEF Data, Vacant
    <3> QED BY <3>1 DEF Held
  <2> QED BY <2>1, <2>2
<1>4. Data(q, x, L, lo, hi, t, base, h, m, w)
  BY <1>1, <1>3 DEF Data
<1> QED BY <1>4 DEF HasData

\* Index x of segment L[c] lies between the reading head and the reading tail.
Within(q, L, lo, t, c, x) ==
    /\ c \in lo .. t /\ x \in Nat /\ x <= q.segments[L[c]].end
    /\ c = lo => q.readingHead.index <= x
    /\ c = t => x <= q.readingTail.index

\* The positions of the sequence the reader holds lie in the list, from the reading head to the reading tail.
LEMMA PositionsAre ==
    ASSUME NEW L, NEW lo, NEW hi, NEW t, NEW base, NEW h, NEW m, NEW w,
           Data(p, reader, L, lo, hi, t, base, h, m, w), reader.at = "holding"
    PROVE  \/ reader.begin = NoPosition /\ reader.end = NoPosition /\ Positions = {NoPosition}
           \/ /\ lo <= hi /\ reader.begin # NoPosition /\ reader.begin = Position(L[lo], reader.begin.index)
              /\ Within(p, L, lo, t, lo, reader.begin.index)
              /\ \A x \in Positions : \E c : Within(p, L, lo, t, c, x.index) /\ x = Position(L[c], x.index)
<1>1. CASE reader.begin = NoPosition /\ reader.end = NoPosition
  <2>1. reader.begin.segment = Null
    BY <1>1 DEF NoPosition, Position
  <2>2. Positions = {NoPosition}
    BY <2>1 DEF Positions
  <2> QED BY <1>1, <2>2
<1>2. CASE ~(reader.begin = NoPosition /\ reader.end = NoPosition)
  <2>1. /\ lo <= hi /\ reader.begin = p.readingHead /\ reader.end \in PositionType
        /\ \E e \in lo .. t :
             /\ reader.end.segment = L[e] /\ reader.end.index <= p.segments[L[e]].end
             /\ e = t => reader.end.index <= p.readingTail.index
             /\ e = lo => reader.begin.index <= reader.end.index
    <3>1. Held(p, reader, L, lo, hi, t)
      BY DEF Data
    <3> QED BY <1>2, <3>1 DEF Held
  <2>2. PICK e \in lo .. t :
             /\ reader.end.segment = L[e] /\ reader.end.index <= p.segments[L[e]].end
             /\ e = t => reader.end.index <= p.readingTail.index
             /\ e = lo => reader.begin.index <= reader.end.index
    BY <2>1
  <2>3. /\ Placed(p, L, lo, hi, t, base, h, m, w) /\ Stored(p, L, lo, hi, base) /\ p \in PipeType
        /\ t \in lo .. hi /\ lo \in lo .. hi /\ lo \in Nat /\ hi \in Nat /\ L \in Lists
    BY <2>1, DataFacts, DataOrder
  <2>4. e \in lo .. hi /\ e \in Nat /\ lo <= e /\ t \in Nat
    BY <2>3
  <2>5. /\ p.readingHead \in PositionType /\ p.readingTail \in PositionType
        /\ reader.begin.index \in Nat /\ reader.end.index \in Nat /\ p.readingTail.index \in Nat
        /\ reader.begin = Position(reader.begin.segment, reader.begin.index)
    <3>1. p.readingHead \in PositionType /\ p.readingTail \in PositionType
      BY <2>3, PipeFields
    <3> QED BY <2>1, <3>1, PositionIs
  <2>6. reader.begin.segment = L[lo] /\ L[lo] # Null /\ reader.begin.index <= p.segments[L[lo]].end
    BY <2>1, <2>3, StoredFacts DEF Placed
  <2>7. reader.begin # NoPosition
    BY <2>6 DEF NoPosition, Position
  <2> DEFINE s == Append(Chain(p, reader.begin.segment, reader.end.segment), reader.end.segment)
             low(i)  == IF s[i] = reader.begin.segment THEN reader.begin.index ELSE 0
             high(i) == IF s[i] = reader.end.segment THEN reader.end.index ELSE p.segments[s[i]].end
  <2>8. s = Append(Piece(L, lo, e), L[e])
    <3>1. Behind(L, e, hi) = L[e] /\ e \in lo .. hi + 1 /\ SegmentsTyped(p) /\ Linked(p, L, lo, hi)
      BY <2>3, <2>4 DEF Behind, Stored
    <3>2. Chain(p, L[lo], L[e]) = Piece(L, lo, e)
      BY <2>3, <3>1, ChainIs
    <3> QED BY <2>2, <2>6, <3>2
  <2>9. DOMAIN s = 1 .. e + 1 - lo /\ \A i \in 1 .. e + 1 - lo : s[i] = L[lo + i - 1] /\ lo + i - 1 \in lo .. e
    <3> DEFINE f == Piece(L, lo, e)
    <3>1. f \in Seq(Pointers) /\ Len(f) = e - lo /\ \A k \in 1 .. e - lo : f[k] = L[lo + k - 1]
      BY <2>3, <2>4, PieceSeq
    <3>2. L[e] \in Pointers
      BY <2>3, <2>4 DEF Lists
    <3> HIDE DEF f
    <3>3. /\ Append(f, L[e]) \in Seq(Pointers) /\ Len(Append(f, L[e])) = e - lo + 1
          /\ \A k \in 1 .. e - lo : Append(f, L[e])[k] = f[k]
          /\ Append(f, L[e])[e - lo + 1] = L[e]
      BY <3>1, <3>2, AppendProperties
    <3>4. DOMAIN Append(f, L[e]) = 1 .. e + 1 - lo
      <4>1. e - lo + 1 = e + 1 - lo
        BY <2>3, <2>4
      <4> QED BY <3>3, <4>1, LenProperties
    <3>5. ASSUME NEW i \in 1 .. e + 1 - lo
          PROVE  Append(f, L[e])[i] = L[lo + i - 1] /\ lo + i - 1 \in lo .. e
      <4>1. lo + i - 1 \in lo .. e
        BY <2>3, <2>4
      <4>2. CASE i \in 1 .. e - lo
        BY <3>1, <3>3, <4>1, <4>2
      <4>3. CASE i \notin 1 .. e - lo
        <5>1. i = e - lo + 1 /\ lo + i - 1 = e
          BY <2>3, <2>4, <4>3
        <5> QED BY <3>3, <4>1, <5>1
      <4> QED BY <4>2, <4>3
    <3> QED BY <2>8, <3>4, <3>5 DEF f
  <2>10. Positions = UNION {{Position(s[i], n) : n \in low(i) .. high(i)} : i \in DOMAIN s}
    <3>1. reader.begin.segment # Null
      BY <2>6
    <3> QED BY <3>1 DEF Positions
  <2>11. Within(p, L, lo, t, lo, reader.begin.index)
    <3>1. lo \in lo .. t
      BY <2>3
    <3>2. lo = t => reader.begin.index <= p.readingTail.index
      BY <2>1, <2>3 DEF Placed
    <3>3. reader.begin.index <= reader.begin.index
      BY <2>5
    <3> QED BY <2>1, <2>5, <2>6, <3>1, <3>2, <3>3 DEF Within
  <2> HIDE DEF s
  <2>12. ASSUME NEW x \in Positions
         PROVE  \E c : Within(p, L, lo, t, c, x.index) /\ x = Position(L[c], x.index)
    <3>1. PICK i \in 1 .. e + 1 - lo : x \in {Position(s[i], n) : n \in low(i) .. high(i)}
      BY <2>9, <2>10
    <3>2. PICK n \in low(i) .. high(i) : x = Position(s[i], n)
      BY <3>1
    <3> DEFINE c == lo + i - 1
    <3>3. s[i] = L[c] /\ c \in lo .. e
      BY <2>9
    <3> HIDE DEF c
    <3>4. c \in lo .. hi /\ c \in lo .. t
      BY <2>3, <2>4, <3>3
    <3>5. (L[c] = L[lo] <=> c = lo) /\ (L[c] = L[e] <=> c = e) /\ p.segments[L[c]].end \in Nat
      <4>1. Stored(p, L, lo, hi, base)
        BY <2>3
      <4>2. p.segments[L[c]].end \in Nat /\ \A j \in lo .. hi : L[c] = L[j] <=> c = j
        BY <3>4, <4>1, StoredFacts
      <4> QED BY <2>3, <2>4, <4>2
    <3>6. low(i) = IF c = lo THEN reader.begin.index ELSE 0
      BY <2>6, <3>3, <3>5
    <3>7. high(i) = IF c = e THEN reader.end.index ELSE p.segments[L[c]].end
      BY <2>2, <3>3, <3>5
    <3> HIDE DEF low, high
    <3>8. low(i) \in Nat /\ high(i) \in Nat /\ high(i) <= p.segments[L[c]].end
      BY <2>2, <2>5, <3>5, <3>6, <3>7
    <3>9. n \in Nat /\ n <= p.segments[L[c]].end /\ (c = lo => reader.begin.index <= n)
      BY <2>5, <3>2, <3>5, <3>6, <3>8
    <3>10. c = t => n <= p.readingTail.index
      <4>1. c = t => c = e
        BY <2>3, <2>4, <3>3
      <4> QED BY <2>2, <2>5, <3>7, <3>9, <4>1
    <3>11. x.index = n
      BY <3>2 DEF Position
    <3>12. Within(p, L, lo, t, c, n)
      BY <2>1, <3>4, <3>9, <3>10 DEF Within
    <3> QED BY <3>2, <3>3, <3>11, <3>12
  <2> QED BY <2>1, <2>5, <2>6, <2>7, <2>11, <2>12
<1> QED BY <1>1, <1>2

-----------------------------------------------------------------------------
(* Advance of the reader.                                                  *)

\* A position in what can be read.
LEMMA WithinIs ==
    ASSUME NEW q, NEW r, NEW L, NEW lo, NEW hi, NEW t, NEW base, NEW h, NEW m, NEW w,
           Data(q, r, L, lo, hi, t, base, h, m, w), lo <= hi, NEW c, NEW x, Within(q, L, lo, t, c, x)
    PROVE  /\ c \in lo .. hi /\ c \in Nat /\ c <= t /\ x \in Nat
           /\ L[c] \in Segments /\ L[c] # Null
           /\ Position(L[c], x).segment = L[c] /\ Position(L[c], x).index = x /\ Position(L[c], x) \in PositionType
           /\ Offset(q, Position(L[c], x)) = q.segments[L[c]].running + x
           /\ Offset(q, Position(L[c], x)) \in Nat
           /\ Number(q, base, L[c], x) = base + Offset(q, Position(L[c], x))
           /\ base + Offset(q, Position(L[c], x)) <= m
<1>1. /\ Placed(q, L, lo, hi, t, base, h, m, w) /\ Stored(q, L, lo, hi, base) /\ q \in PipeType
      /\ t \in lo .. hi /\ lo \in Nat /\ hi \in Nat /\ base \in Nat /\ m \in Nat
  BY DataFacts, DataOrder
<1>2. c \in lo .. hi /\ c \in Nat /\ c <= t /\ x \in Nat
  BY <1>1 DEF Within
<1>3. L[c] \in Segments /\ L[c] # Null /\ q.segments[L[c]].running \in Nat /\ q.segments[L[c]].end \in Nat
  BY <1>1, <1>2, StoredFacts, SMTT(30)
<1>4. /\ Position(L[c], x).segment = L[c] /\ Position(L[c], x).index = x /\ Position(L[c], x) \in PositionType
  BY <1>2, <1>3 DEF Position, PositionType
<1>5. Offset(q, Position(L[c], x)) = q.segments[L[c]].running + x
  BY <1>4 DEF Offset
<1>6. q.readingTail.index \in Nat
  BY <1>1, PipeFields, PositionIs
<1>7. Number(q, base, L[c], x) <= m
  <2>1. IF c = t THEN x <= q.readingTail.index ELSE x <= q.segments[L[c]].end
    BY DEF Within
  <2>2. Number(q, base, L[c], x) <= Number(q, base, L[t], q.readingTail.index)
    BY <1>1, <1>2, <1>6, <2>1, NumberOrder
  <2> QED BY <1>1, <2>2 DEF Placed
<1>8. Number(q, base, L[c], x) = base + (q.segments[L[c]].running + x)
  BY <1>1, <1>2, <1>3 DEF Number
<1>9. q.segments[L[c]].running + x \in Nat
  BY <1>2, <1>3
<1> QED BY <1>2, <1>3, <1>4, <1>5, <1>7, <1>8, <1>9

\* What is examined up to L[c]'s index x is counted no more.
LEMMA ExamineData ==
    ASSUME NEW q, NEW r, NEW L, NEW lo, NEW hi, NEW t, NEW base, NEW h, NEW m, NEW w,
           Data(q, r, L, lo, hi, t, base, h, m, w), lo <= hi, NEW c, NEW x, Within(q, L, lo, t, c, x)
    PROVE  LET v == Examine(q, Position(L[c], x))
               o == Offset(q, Position(L[c], x))
           IN  /\ Data(v, r, L, lo, hi, t, base, h, m, w)
               /\ v.lastExamined = o /\ v.notConsumed = m - base - o /\ q.notConsumed = m - base - q.lastExamined
               /\ v.notFlushed = q.notFlushed /\ v.segments = q.segments
               /\ v.readingHead = q.readingHead /\ v.readingTail = q.readingTail
               /\ v.writerComplete = q.writerComplete /\ v.readerComplete = q.readerComplete
<1> DEFINE o == Offset(q, Position(L[c], x))
           v == [q EXCEPT !.notConsumed = m - base - o, !.lastExamined = o]
<1>1. /\ Placed(q, L, lo, hi, t, base, h, m, w) /\ Stored(q, L, lo, hi, base) /\ q \in PipeType
      /\ base \in Nat /\ m \in Nat
  BY DataFacts, DataOrder
<1>2. Position(L[c], x).segment # Null /\ o \in Nat /\ base + o <= m
  <2>1. L[c] # Null /\ Position(L[c], x).segment = L[c] /\ o \in Nat /\ base + o <= m
    BY WithinIs
  <2> QED BY <2>1
<1>3. q.lastExamined \in Nat /\ q.notConsumed = m - base - q.lastExamined
  <2>1. q.lastExamined \in Nat \cup {-1}
    BY <1>1, PipeFields
  <2> QED BY <1>1, <2>1 DEF Placed
<1> DEFINE position == Position(L[c], x)
<1>4. Examine(q, position) = v
  <2>1. q.notConsumed - (o - q.lastExamined) = m - base - o
    BY <1>1, <1>2, <1>3
  <2>2. Examine(q, position) = [q EXCEPT !.notConsumed = q.notConsumed - (o - q.lastExamined), !.lastExamined = o]
    <3>1. position.segment # Null /\ q.lastExamined # -1 /\ o = Offset(q, position)
      BY <1>2, <1>3
    <3> HIDE DEF position, o
    <3> QED BY <3>1 DEF Examine
  <2> HIDE DEF o, position
  <2> QED BY <2>1, <2>2
<1> HIDE DEF position
<1>5. m - base - o \in Nat
  <2> HIDE DEF o
  <2> QED BY <1>1, <1>2
<1> SUFFICES /\ Data(v, r, L, lo, hi, t, base, h, m, w)
             /\ v.lastExamined = o /\ v.notConsumed = m - base - o /\ q.notConsumed = m - base - q.lastExamined
             /\ v.notFlushed = q.notFlushed /\ v.segments = q.segments
             /\ v.readingHead = q.readingHead /\ v.readingTail = q.readingTail
             /\ v.writerComplete = q.writerComplete /\ v.readerComplete = q.readerComplete
  <2> HIDE DEF v
  <2> QED BY <1>4 DEF position
<1> HIDE DEF o
<1>6. v \in PipeType
  BY <1>1, <1>2, <1>5 DEF PipeType
<1>7. /\ v.segments = q.segments /\ v.allocated = q.allocated /\ v.pool = q.pool
      /\ v.notConsumed = m - base - o /\ v.notFlushed = q.notFlushed /\ v.buffered = q.buffered
      /\ v.lastExamined = o /\ v.readingHead = q.readingHead /\ v.readingTail = q.readingTail
      /\ v.writingHead = q.writingHead /\ v.memory = q.memory /\ v.writing = q.writing
      /\ v.writerComplete = q.writerComplete /\ v.readerComplete = q.readerComplete
  BY <1>1 DEF PipeType
<1> HIDE DEF v
<1>8. \A s : Filled(v, s) = Filled(q, s)
  BY <1>7 DEF Filled
<1>9. Stored(v, L, lo, hi, base)
  <2>1. Stored(q, L, lo, hi, base)
    BY <1>1
  <2>2. v.segments = q.segments /\ v.buffered \in Nat /\ \A i \in lo .. hi : Filled(v, L[i]) = Filled(q, L[i])
    BY <1>7, <1>8, <2>1 DEF Stored
  <2> QED BY <2>1, <2>2, SameStored
<1>10. Pooled(v, L, lo, hi) /\ Held(v, r, L, lo, hi, t)
  BY <1>7 DEF Data, Pooled, Held
<1>11. Placed(v, L, lo, hi, t, base, h, m, w)
  <2>1. v.lastExamined # -1
    BY <1>2, <1>7
  <2>2. v.notConsumed = m - base - v.lastExamined
    BY <1>7
  <2> QED BY <1>1, <1>7, <1>8, <2>1, <2>2 DEF Placed, Number
<1>12. Lent(v, L, lo, hi, m, w)
  BY <1>7, <1>8 DEF Data, Lent
<1>13. Data(v, r, L, lo, hi, t, base, h, m, w)
  BY <1>6, <1>9, <1>10, <1>11, <1>12 DEF Data
<1> QED BY <1>3, <1>7, <1>13

\* The segments in front of L[d] are freed, where the members tell already of the rest.
LEMMA FrontData ==
    ASSUME NEW q \in PipeType, NEW L, NEW lo, NEW hi, NEW base, Stored(q, L, lo, hi, base), lo <= hi + 1,
           Pooled(q, L, lo, hi), NEW d \in lo .. hi + 1, NEW t, NEW h, NEW m, NEW w \in Nat,
           IF d <= hi THEN Placed(q, L, d, hi, t, base, h, m, w) ELSE Vacant(q, w, h, m, w),
           Lent(q, L, d, hi, m, w), NEW r, r.at # "holding", NEW allow \in BOOLEAN
    PROVE  LET v == FreeSegments(q, Piece(L, lo, d), allow)
           IN  HasData(v, r, h, m, w) /\ SameRest(v, q)
<1> DEFINE v == FreeSegments(q, Piece(L, lo, d), allow)
<1>1. /\ v \in PipeType /\ SameRest(v, q) /\ Pooled(v, L, d, hi)
      /\ v.segments = [s \in Segments |-> IF s \in {L[i] : i \in lo .. d - 1} THEN EmptySegment ELSE q.segments[s]]
  BY FreeSegmentsIs
<1> HIDE DEF v
<1>2. Dropped(q, v, L, lo, hi, d)
  BY <1>1 DEF Dropped, SameRest
<1>3. /\ Stored(v, L, d, hi, base)
      /\ \A i \in d .. hi : v.segments[L[i]] = q.segments[L[i]] /\ Filled(v, L[i]) = Filled(q, L[i])
  BY <1>2, StoredDrop
<1>4. lo \in Nat /\ hi \in Nat /\ d \in Nat /\ d <= hi + 1 /\ L \in Lists /\ v.buffered \in Nat
  BY <1>3 DEF Stored
<1>5. Held(v, r, L, d, hi, t)
  BY DEF Held
<1>6. Lent(v, L, d, hi, m, w)
  <2>1. CASE d <= hi
    <3>1. hi \in d .. hi
      BY <1>4, <2>1
    <3>2. v.segments[L[hi]] = q.segments[L[hi]] /\ Filled(v, L[hi]) = Filled(q, L[hi])
      BY <1>3, <3>1
    <3> QED BY <1>1, <3>2 DEF Lent, SameRest
  <2>2. CASE ~(d <= hi)
    <3>1. q.memory = NoMemory
      BY <2>2 DEF Vacant
    <3>2. ~(v.memory.length > 0)
      BY <1>1, <3>1 DEF SameRest, NoMemory
    <3> QED BY <1>1, <3>2 DEF Lent, SameRest
  <2> QED BY <2>1, <2>2
<1>7. CASE d <= hi
  <2>1. Placed(q, L, d, hi, t, base, h, m, w)
    BY <1>7
  <2>2. t \in d .. hi /\ d \in d .. hi /\ hi \in d .. hi
    BY <1>4, <1>7, <2>1 DEF Placed
  <2>3. /\ v.segments[L[d]] = q.segments[L[d]] /\ v.segments[L[t]] = q.segments[L[t]]
        /\ v.segments[L[hi]] = q.segments[L[hi]] /\ Filled(v, L[hi]) = Filled(q, L[hi])
    BY <1>3, <2>2
  <2>4. Placed(v, L, d, hi, t, base, h, m, w)
    BY <1>1, <2>1, <2>3 DEF Placed, Number, SameRest
  <2>5. Data(v, r, L, d, hi, t, base, h, m, w)
    BY <1>1, <1>3, <1>4, <1>5, <1>6, <1>7, <2>4 DEF Data
  <2> QED BY <1>1, <2>5 DEF HasData, v
<1>8. CASE ~(d <= hi)
  <2>1. Vacant(v, w, h, m, w)
    BY <1>1, <1>8 DEF Vacant, SameRest
  <2>2. Stored(v, L, d, hi, w)
    <3>1. \A i \in d .. hi : FALSE
      BY <1>4, <1>8
    <3>2. Filling(v, L, d, hi, w)
      BY <3>1 DEF Filling
    <3> QED BY <1>3, <3>2 DEF Stored
  <2>3. Data(v, r, L, d, hi, t, w, h, m, w)
    BY <1>1, <1>4, <1>5, <1>6, <1>8, <2>1, <2>2 DEF Data
  <2> QED BY <1>1, <2>3 DEF HasData, v
<1> QED BY <1>7, <1>8

\* The reading head moves within its segment, or to a later one.
LEMMA KeepData ==
    ASSUME NEW q, NEW r, NEW L, NEW lo, NEW hi, NEW t, NEW base, NEW h, NEW m, NEW w,
           Data(q, r, L, lo, hi, t, base, h, m, w), lo <= hi, NEW c, NEW x, Within(q, L, lo, t, c, x),
           NEW z, z.at # "holding"
    PROVE  LET y == Position(L[c], x)
               v == FreeSegments([q EXCEPT !.readingHead = y], Chain(q, q.readingHead.segment, L[c]), TRUE)
           IN  HasData(v, z, Number(q, base, L[c], x), m, w) /\ SameRest(v, [q EXCEPT !.readingHead = y])
<1> DEFINE y == Position(L[c], x)
           a == [q EXCEPT !.readingHead = y]
           n == Number(q, base, L[c], x)
<1>1. /\ Placed(q, L, lo, hi, t, base, h, m, w) /\ Stored(q, L, lo, hi, base) /\ q \in PipeType
      /\ lo \in lo .. hi /\ lo \in Nat /\ hi \in Nat /\ w \in Nat /\ L \in Lists /\ Pooled(q, L, lo, hi)
      /\ Lent(q, L, lo, hi, m, w)
  BY DataFacts, DataOrder DEF Data
<1>2. c \in lo .. hi /\ c \in Nat /\ c <= t /\ y.segment = L[c] /\ y.index = x /\ y \in PositionType
  BY WithinIs
<1> HIDE DEF y
<1>3. a \in PipeType
  BY <1>1, <1>2 DEF PipeType
<1>4. /\ a.segments = q.segments /\ a.allocated = q.allocated /\ a.pool = q.pool
      /\ a.notConsumed = q.notConsumed /\ a.notFlushed = q.notFlushed /\ a.buffered = q.buffered
      /\ a.lastExamined = q.lastExamined /\ a.readingHead = y /\ a.readingTail = q.readingTail
      /\ a.writingHead = q.writingHead /\ a.memory = q.memory /\ a.writing = q.writing
      /\ a.writerComplete = q.writerComplete /\ a.readerComplete = q.readerComplete
  BY <1>1 DEF PipeType
<1> HIDE DEF a
<1>5. \A s : Filled(a, s) = Filled(q, s)
  BY <1>4 DEF Filled
<1>6. Stored(a, L, lo, hi, base)
  <2>1. a.buffered \in Nat
    BY <1>1, <1>4 DEF Stored
  <2> QED BY <1>1, <1>4, <1>5, <2>1, SameStored
<1>7. Pooled(a, L, lo, hi)
  BY <1>1, <1>4 DEF Pooled
<1>8. Lent(a, L, c, hi, m, w)
  <2>1. c <= hi
    BY <1>1, <1>2
  <2> QED BY <1>1, <1>4, <1>5, <2>1 DEF Lent
<1>9. Placed(a, L, c, hi, t, base, n, m, w)
  <2>1. t \in c .. hi
    BY <1>1, <1>2 DEF Placed
  <2>2. x <= q.segments[L[c]].end /\ (t = c => x <= q.readingTail.index)
    BY DEF Within
  <2> QED BY <1>1, <1>2, <1>4, <1>5, <2>1, <2>2 DEF Placed, Number
<1>10. Chain(q, q.readingHead.segment, L[c]) = Piece(L, lo, c)
  <2>1. Behind(L, c, hi) = L[c] /\ c \in lo .. hi + 1 /\ SegmentsTyped(q) /\ Linked(q, L, lo, hi)
    BY <1>1, <1>2 DEF Behind, Stored
  <2>2. Chain(q, L[lo], L[c]) = Piece(L, lo, c)
    BY <1>1, <2>1, ChainIs
  <2> QED BY <1>1, <2>2 DEF Placed
<1>11. c \in lo .. hi + 1 /\ lo <= hi + 1 /\ c <= hi
  BY <1>1, <1>2
<1>12. HasData(FreeSegments(a, Piece(L, lo, c), TRUE), z, n, m, w) /\ SameRest(FreeSegments(a, Piece(L, lo, c), TRUE), a)
  <2> HIDE DEF n
  <2> QED BY <1>1, <1>3, <1>6, <1>7, <1>8, <1>9, <1>11, FrontData
<1> QED BY <1>10, <1>12 DEF y, a

\* The counts and flags that the release of segments leaves alone.
CountsKept(v, q) ==
    /\ v.notConsumed = q.notConsumed /\ v.notFlushed = q.notFlushed /\ v.lastExamined = q.lastExamined
    /\ v.writerComplete = q.writerComplete /\ v.readerComplete = q.readerComplete

\* MoveReturnEndToNextBlock.
LEMMA MoveIs ==
    ASSUME NEW q \in PipeType, NEW s \in Segments
    PROVE  LET a == MoveToNextBlock(q, s)
               next == Position(q.segments[s].next, 0)
           IN  /\ a \in PipeType /\ CountsKept(a, q)
               /\ a.segments = q.segments /\ a.allocated = q.allocated /\ a.pool = q.pool
               /\ a.buffered = q.buffered /\ a.writing = q.writing /\ a.readingHead = next
               /\ a.readingTail = IF q.readingTail.segment = s THEN next ELSE q.readingTail
               /\ s = q.writingHead => a.writingHead = Null /\ a.memory = NoMemory
               /\ s # q.writingHead => a.writingHead = q.writingHead /\ a.memory = q.memory
<1> DEFINE a == MoveToNextBlock(q, s)
           next == Position(q.segments[s].next, 0)
           b == IF s = q.writingHead THEN [q EXCEPT !.writingHead = Null, !.memory = NoMemory] ELSE q
           tail == IF q.readingTail.segment = s THEN next ELSE q.readingTail
           v == [b EXCEPT !.readingHead = next, !.readingTail = tail]
<1>1. next \in PositionType /\ q.readingTail \in PositionType
  <2>1. q.segments[s] \in SegmentType /\ q.readingTail \in PositionType
    BY PipeFields DEF SegmentsTyped
  <2> QED BY <2>1 DEF SegmentType, PositionType, Position
<1>2. tail \in PositionType
  BY <1>1
<1>3. NoMemory \in MemoryType
  BY DEF NoMemory, MemoryType
<1>4. /\ b \in PipeType /\ b.readingTail = q.readingTail
      /\ b.notConsumed = q.notConsumed /\ b.notFlushed = q.notFlushed /\ b.lastExamined = q.lastExamined
      /\ b.writerComplete = q.writerComplete /\ b.readerComplete = q.readerComplete
      /\ b.segments = q.segments /\ b.allocated = q.allocated /\ b.pool = q.pool
      /\ b.buffered = q.buffered /\ b.writing = q.writing
      /\ s = q.writingHead => b.writingHead = Null /\ b.memory = NoMemory
      /\ s # q.writingHead => b.writingHead = q.writingHead /\ b.memory = q.memory
  <2>1. CASE s = q.writingHead
    <3> DEFINE e == [q EXCEPT !.writingHead = Null, !.memory = NoMemory]
    <3>1. b = e
      BY <2>1
    <3>2. e \in PipeType
      BY <1>3 DEF PipeType
    <3>3. /\ e.readingTail = q.readingTail
          /\ e.notConsumed = q.notConsumed /\ e.notFlushed = q.notFlushed /\ e.lastExamined = q.lastExamined
          /\ e.writerComplete = q.writerComplete /\ e.readerComplete = q.readerComplete
          /\ e.segments = q.segments /\ e.allocated = q.allocated /\ e.pool = q.pool
          /\ e.buffered = q.buffered /\ e.writing = q.writing
          /\ e.writingHead = Null /\ e.memory = NoMemory
      BY DEF PipeType
    <3> HIDE DEF e, b
    <3> QED BY <2>1, <3>1, <3>2, <3>3
  <2>2. CASE s # q.writingHead
    BY <2>2
  <2> QED BY <2>1, <2>2
<1>5. a = v
  <2>1. a = [b EXCEPT !.readingHead = next, !.readingTail = IF b.readingTail.segment = s THEN next ELSE b.readingTail]
    BY DEF MoveToNextBlock
  <2> HIDE DEF b, a, next
  <2> QED BY <1>4, <2>1
<1> HIDE DEF b, a, next, tail
<1>6. v \in PipeType
  BY <1>1, <1>2, <1>4 DEF PipeType
<1>7. /\ v.readingHead = next /\ v.readingTail = tail
      /\ v.notConsumed = b.notConsumed /\ v.notFlushed = b.notFlushed /\ v.lastExamined = b.lastExamined
      /\ v.writerComplete = b.writerComplete /\ v.readerComplete = b.readerComplete
      /\ v.segments = b.segments /\ v.allocated = b.allocated /\ v.pool = b.pool
      /\ v.buffered = b.buffered /\ v.writing = b.writing
      /\ v.writingHead = b.writingHead /\ v.memory = b.memory
  BY <1>4 DEF PipeType
<1> HIDE DEF v
<1>8. /\ a \in PipeType /\ CountsKept(a, q)
      /\ a.segments = q.segments /\ a.allocated = q.allocated /\ a.pool = q.pool
      /\ a.buffered = q.buffered /\ a.writing = q.writing /\ a.readingHead = next
      /\ a.readingTail = tail
      /\ s = q.writingHead => a.writingHead = Null /\ a.memory = NoMemory
      /\ s # q.writingHead => a.writingHead = q.writingHead /\ a.memory = q.memory
  BY <1>4, <1>5, <1>6, <1>7 DEF CountsKept
<1> QED BY <1>8 DEF a, next, tail

\* All that L[c] holds was consumed: the list starts behind it.
LEMMA ReleaseData ==
    ASSUME NEW q, NEW r, NEW L, NEW lo, NEW hi, NEW t, NEW base, NEW h, NEW m, NEW w,
           Data(q, r, L, lo, hi, t, base, h, m, w), lo <= hi, NEW c, NEW x, Within(q, L, lo, t, c, x),
           Releases(q, Position(L[c], x)), Offset(q, Position(L[c], x)) <= q.lastExamined,
           NEW z, z.at # "holding"
    PROVE  LET v == FreeSegments(MoveToNextBlock(q, L[c]),
                                 Chain(q, q.readingHead.segment, q.segments[L[c]].next), TRUE)
           IN  HasData(v, z, Number(q, base, L[c], x), m, w) /\ CountsKept(v, q)
<1> DEFINE a == MoveToNextBlock(q, L[c])
           next == Position(q.segments[L[c]].next, 0)
           n == Number(q, base, L[c], x)
           d == c + 1
<1>1. /\ Placed(q, L, lo, hi, t, base, h, m, w) /\ Stored(q, L, lo, hi, base) /\ q \in PipeType
      /\ lo \in lo .. hi /\ hi \in lo .. hi /\ lo \in Nat /\ hi \in Nat /\ w \in Nat /\ m \in Nat /\ base \in Nat
      /\ L \in Lists /\ Pooled(q, L, lo, hi) /\ Lent(q, L, lo, hi, m, w) /\ q.writingHead = L[hi]
      /\ Filled(q, L[hi]) = q.segments[L[hi]].end + q.buffered
  BY DataFacts, DataOrder DEF Data
<1>2. /\ c \in lo .. hi /\ c \in Nat /\ c <= t /\ x \in Nat /\ L[c] \in Segments
      /\ Position(L[c], x).segment = L[c] /\ Position(L[c], x).index = x
      /\ n = base + Offset(q, Position(L[c], x)) /\ Offset(q, Position(L[c], x)) \in Nat
  BY WithinIs
<1>3. x = q.segments[L[c]].end /\ (L[c] = L[hi] => q.buffered = 0 /\ ~q.writing)
  BY <1>1, <1>2 DEF Releases
<1>4. t \in lo .. hi /\ t \in Nat /\ c <= t /\ t <= hi /\ q.readingTail.segment = L[t]
      /\ q.readingTail.index <= q.segments[L[t]].end /\ m = Number(q, base, L[t], q.readingTail.index)
  BY <1>1, <1>2 DEF Placed
<1>5. /\ q.readingTail.index \in Nat /\ q.buffered \in Nat /\ q.notConsumed \in Nat
      /\ q.lastExamined \in Nat /\ q.notConsumed = m - base - q.lastExamined
  <2>1. /\ q.readingTail.index \in Nat /\ q.buffered \in Nat /\ q.notConsumed \in Nat
        /\ q.lastExamined \in Nat \cup {-1}
    BY <1>1, PipeFields, PositionIs
  <2> QED BY <1>1, <2>1 DEF Placed
<1>6. c = t => q.readingTail.index = x /\ m = n
  <2>1. c = t => x <= q.readingTail.index /\ q.readingTail.index <= x
    BY <1>3, <1>4 DEF Within
  <2>2. c = t => q.readingTail.index = x
    BY <1>2, <1>5, <2>1
  <2> QED BY <1>4, <2>2
<1> HIDE DEF n, next
<1>7. q.segments[L[c]].next = Behind(L, d, hi) /\ d \in lo .. hi + 1 /\ lo <= hi + 1 /\ d \in c .. hi + 1
  <2>1. q.segments[L[c]].next = Behind(L, c + 1, hi)
    BY <1>1, <1>2, StoredFacts
  <2> QED BY <1>1, <1>2, <2>1
<1>8. Chain(q, q.readingHead.segment, q.segments[L[c]].next) = Piece(L, lo, d)
  <2>1. SegmentsTyped(q) /\ Linked(q, L, lo, hi) /\ d \in lo .. hi + 1
    BY <1>1, <1>7 DEF Stored
  <2> HIDE DEF d
  <2>2. Chain(q, L[lo], Behind(L, d, hi)) = Piece(L, lo, d)
    BY <1>1, <2>1, ChainIs
  <2> QED BY <1>1, <1>7, <2>2 DEF Placed
<1>9. /\ a \in PipeType /\ CountsKept(a, q)
      /\ a.segments = q.segments /\ a.allocated = q.allocated /\ a.pool = q.pool
      /\ a.buffered = q.buffered /\ a.writing = q.writing /\ a.readingHead = next
      /\ a.readingTail = IF q.readingTail.segment = L[c] THEN next ELSE q.readingTail
      /\ L[c] = q.writingHead => a.writingHead = Null /\ a.memory = NoMemory
      /\ L[c] # q.writingHead => a.writingHead = q.writingHead /\ a.memory = q.memory
  BY <1>1, <1>2, MoveIs DEF next
<1> HIDE DEF a
<1>10. \A i, j \in lo .. hi : L[i] = L[j] <=> i = j
  BY <1>1, StoredFacts, SMTT(30)
<1>11. \A i \in lo .. hi : Filled(a, L[i]) = Filled(q, L[i])
  <2>1. CASE L[c] = L[hi]
    <3>1. a.writingHead = Null /\ q.buffered = 0 /\ a.buffered = 0
      BY <1>1, <1>3, <1>9, <2>1
    <3> QED BY <1>9, <3>1 DEF Filled
  <2>2. CASE L[c] # L[hi]
    <3>1. a.writingHead = q.writingHead
      BY <1>1, <1>9, <2>2
    <3> QED BY <1>9, <3>1 DEF Filled
  <2> QED BY <2>1, <2>2
<1>12. Stored(a, L, lo, hi, base)
  <2>1. a.buffered \in Nat
    BY <1>5, <1>9
  <2> QED BY <1>1, <1>9, <1>11, <2>1, SameStored
<1>13. Pooled(a, L, lo, hi)
  BY <1>1, <1>9 DEF Pooled
<1>14. \A b, e \in Nat : b + e + 0 = b + e
  OBVIOUS
<1>15. HasData(FreeSegments(a, Piece(L, lo, d), TRUE), z, n, m, w) /\ SameRest(FreeSegments(a, Piece(L, lo, d), TRUE), a)
  <2>1. CASE c = hi
    <3>1. c = t /\ m = n /\ q.buffered = 0 /\ ~q.writing /\ L[c] = q.writingHead /\ q.readingTail.segment = L[c]
      BY <1>1, <1>2, <1>3, <1>4, <1>6, <2>1
    <3>2. next = NoPosition
      BY <1>7, <2>1 DEF Behind, next, NoPosition
    <3>3. w = n
      <4>1. w = Number(q, base, L[hi], Filled(q, L[hi]))
        BY <1>1 DEF Placed
      <4>2. q.segments[L[hi]].end \in Nat
        BY <1>1, StoredFacts
      <4>3. Filled(q, L[hi]) = x
        BY <1>1, <1>3, <2>1, <3>1, <4>2
      <4> QED BY <2>1, <4>1, <4>3 DEF n
    <3>4. a.notConsumed = 0
      <4>1. m - base <= q.lastExamined
        BY <1>1, <1>2, <1>5, <3>1
      <4>2. q.notConsumed = 0
        BY <1>1, <1>5, <4>1
      <4> QED BY <1>9, <4>2 DEF CountsKept
    <3>5. Vacant(a, w, n, m, w)
      <4>1. NoPosition.segment = Null
        BY DEF NoPosition, Position
      <4> QED BY <1>9, <3>1, <3>2, <3>3, <3>4, <4>1 DEF Vacant
    <3>6. Lent(a, L, d, hi, m, w)
      <4>1. a.memory = NoMemory /\ ~(NoMemory.length > 0)
        BY <1>9, <3>1 DEF NoMemory
      <4> QED BY <1>1, <1>9, <4>1 DEF Lent, CountsKept
    <3>7. ~(d <= hi)
      BY <1>1, <2>1
    <3> HIDE DEF d
    <3> QED BY <1>1, <1>7, <1>9, <1>12, <1>13, <3>5, <3>6, <3>7, FrontData
  <2>2. CASE c # hi
    <3> DEFINE u == IF t = c THEN d ELSE t
    <3>1. d \in lo .. hi /\ d <= hi /\ d \in Nat /\ u \in d .. hi /\ hi \in lo .. hi /\ c < d
      BY <1>1, <1>2, <1>4, <2>2
    <3>2. L[c] # L[hi] /\ (L[t] = L[c] <=> t = c)
      BY <1>1, <1>2, <1>4, <1>10, <2>2
    <3>3. a.writingHead = q.writingHead /\ a.memory = q.memory
      BY <1>1, <1>9, <3>2
    <3>4. next = Position(L[d], 0) /\ next.segment = L[d] /\ next.index = 0
      <4>1. q.segments[L[c]].next = L[d]
        BY <1>1, <1>7, <3>1 DEF Behind
      <4> QED BY <4>1 DEF next, Position
    <3>5. a.readingTail = (IF t = c THEN next ELSE q.readingTail)
      BY <1>4, <1>9, <3>2
    <3>6. /\ q.segments[L[d]].end \in Nat /\ q.segments[L[d]].running \in Nat
          /\ q.segments[L[c]].end \in Nat /\ q.segments[L[c]].running \in Nat
      BY <1>1, <1>2, <3>1, StoredFacts
    <3>7. n = Number(q, base, L[d], 0)
      <4>1. Indexed(q, L, lo, hi)
        BY <1>1 DEF Stored
      <4>2. q.segments[L[c]].running + q.segments[L[c]].end = q.segments[L[d]].running
        BY <1>2, <3>1, <4>1 DEF Indexed
      <4>3. n = base + q.segments[L[c]].running + q.segments[L[c]].end
        BY <1>3 DEF n, Number
      <4> QED BY <1>1, <3>6, <4>2, <4>3 DEF Number
    <3>8. Lent(a, L, d, hi, m, w)
      BY <1>1, <1>9, <1>11, <3>1, <3>3 DEF Lent, CountsKept
    <3>9. Placed(a, L, d, hi, u, base, n, m, w)
      <4>1. a.readingTail.segment = L[u] /\ a.readingTail.index <= q.segments[L[u]].end
            /\ m = Number(q, base, L[u], a.readingTail.index) /\ 0 <= a.readingTail.index
        <5>1. CASE t = c
          <6>1. u = d /\ a.readingTail = next /\ m = n
            BY <1>6, <3>5, <5>1
          <6> QED BY <3>4, <3>6, <3>7, <6>1
        <5>2. CASE t # c
          <6>1. u = t /\ a.readingTail = q.readingTail
            BY <3>5, <5>2
          <6> QED BY <1>4, <1>5, <6>1
        <5> QED BY <5>1, <5>2
      <4>2. a.readingHead.segment = L[d] /\ a.readingHead.index = 0 /\ 0 <= q.segments[L[d]].end
        BY <1>9, <3>4, <3>6
      <4>3. /\ w = Number(q, base, L[hi], Filled(q, L[hi])) /\ q.lastExamined # -1
            /\ q.notConsumed = m - base - q.lastExamined
        BY <1>1 DEF Placed
      <4> HIDE DEF u, d
      <4> QED BY <1>1, <1>9, <1>11, <3>1, <3>3, <3>7, <4>1, <4>2, <4>3 DEF Placed, Number, CountsKept
    <3> HIDE DEF d, u
    <3> QED BY <1>1, <1>7, <1>9, <1>12, <1>13, <3>1, <3>8, <3>9, FrontData
  <2> QED BY <2>1, <2>2
<1> DEFINE v == FreeSegments(a, Piece(L, lo, d), TRUE)
<1> HIDE DEF v, d
<1>16. CountsKept(v, q)
  BY <1>9, <1>15 DEF CountsKept, SameRest, v
<1>17. HasData(v, z, n, m, w)
  BY <1>15 DEF v
<1> QED BY <1>8, <1>16, <1>17 DEF a, v, n

\* The reader takes the bytes up to consumed, whether its segment is released or not.
LEMMA ConsumeData ==
    ASSUME NEW q, NEW r, NEW L, NEW lo, NEW hi, NEW t, NEW base, NEW h, NEW m, NEW w,
           Data(q, r, L, lo, hi, t, base, h, m, w), lo <= hi, NEW c, NEW x, Within(q, L, lo, t, c, x),
           Offset(q, Position(L[c], x)) <= q.lastExamined, NEW z, z.at # "holding"
    PROVE  LET v == Consume(q, Position(L[c], x))
           IN  HasData(v, z, Number(q, base, L[c], x), m, w) /\ CountsKept(v, q)
<1> DEFINE y == Position(L[c], x)
           n == Number(q, base, L[c], x)
           v == Consume(q, y)
<1>1. y.segment = L[c] /\ L[c] # Null
  BY WithinIs
<1>2. CASE Releases(q, y)
  <2> DEFINE f == FreeSegments(MoveToNextBlock(q, L[c]), Chain(q, q.readingHead.segment, q.segments[L[c]].next), TRUE)
  <2>1. HasData(f, z, n, m, w) /\ CountsKept(f, q)
    BY <1>2, ReleaseData
  <2>2. v = f
    <3> HIDE DEF y
    <3> QED BY <1>1, <1>2 DEF Consume
  <2> HIDE DEF f, v
  <2> QED BY <2>1, <2>2 DEF v
<1>3. CASE ~Releases(q, y)
  <2> DEFINE b == [q EXCEPT !.readingHead = y]
             f == FreeSegments(b, Chain(q, q.readingHead.segment, L[c]), TRUE)
  <2>1. HasData(f, z, n, m, w) /\ SameRest(f, b)
    BY KeepData
  <2>2. v = f
    <3> HIDE DEF y
    <3> QED BY <1>1, <1>3 DEF Consume
  <2>3. q \in PipeType
    BY DEF Data
  <2>4. CountsKept(b, q)
    <3> HIDE DEF y
    <3> QED BY <2>3 DEF PipeType, CountsKept
  <2> HIDE DEF f, v, b
  <2>5. CountsKept(f, q)
    BY <2>1, <2>4 DEF SameRest, CountsKept
  <2> QED BY <2>1, <2>2, <2>5 DEF v
<1> QED BY <1>2, <1>3

\* The reader's Advance takes n - h bytes.
LEMMA AdvanceData ==
    ASSUME NEW h, NEW m, NEW w, HasData(p, reader, h, m, w), p.lastExamined # -1, reader.at = "holding",
           NEW consumed \in Positions, NEW examined \in Positions, MayAdvance(consumed, examined),
           NEW z, z.at # "holding"
    PROVE  LET e == Examine(p, examined)
               v == Consume(e, consumed)
           IN  /\ \E n \in Nat : h <= n /\ n <= m /\ HasData(v, z, n, m, w)
               /\ v.notConsumed = e.notConsumed /\ v.notFlushed = p.notFlushed /\ v.lastExamined # -1
               /\ v.writerComplete = p.writerComplete /\ v.readerComplete = p.readerComplete
               /\ e.notConsumed <= p.notConsumed
               /\ examined = p.readingTail => e.notConsumed = 0
<1> DEFINE e == Examine(p, examined)
           v == Consume(e, consumed)
<1>1. PICK L, lo, hi, t, base : Data(p, reader, L, lo, hi, t, base, h, m, w)
  BY DEF HasData
<1>2. p \in PipeType /\ h \in Nat /\ m \in Nat /\ w \in Nat /\ base \in Nat /\ h <= m
  BY <1>1, DataOrder DEF Data
<1>3. p.notConsumed \in Nat /\ p.lastExamined \in Nat /\ p.readingTail \in PositionType /\ p.readingHead \in PositionType
  BY <1>2, PipeFields
<1>4. CASE reader.begin = NoPosition /\ Positions = {NoPosition}
  <2>1. consumed = NoPosition /\ examined = NoPosition /\ NoPosition.segment = Null
    BY <1>4 DEF NoPosition, Position
  <2>2. e = p
    BY <2>1 DEF Examine
  <2>3. v = p
    <3> HIDE DEF e
    <3> QED BY <2>1, <2>2 DEF Consume
  <2>4. HasData(p, z, h, m, w)
    BY OtherReader
  <2>5. examined = p.readingTail => p.notConsumed = 0
    <3> SUFFICES ASSUME p.readingTail = NoPosition PROVE p.notConsumed = 0
      BY <2>1
    <3>1. CASE lo <= hi
      <4>1. Stored(p, L, lo, hi, base) /\ t \in lo .. hi /\ p.readingTail.segment = L[t]
        BY <1>1, <3>1, DataFacts DEF Placed
      <4>2. L[t] # Null
        BY <4>1, StoredFacts
      <4> QED BY <2>1, <4>1, <4>2
    <3>2. CASE ~(lo <= hi)
      BY <1>1, <3>2 DEF Data, Vacant
    <3> QED BY <3>1, <3>2
  <2>6. h <= h /\ p.notConsumed <= p.notConsumed
    BY <1>2, <1>3
  <2> HIDE DEF e, v
  <2> QED BY <1>2, <2>2, <2>3, <2>4, <2>5, <2>6 DEF e, v
<1>5. CASE ~(reader.begin = NoPosition /\ Positions = {NoPosition})
  <2>1. /\ lo <= hi /\ reader.begin # NoPosition
        /\ \A x \in Positions : \E c : Within(p, L, lo, t, c, x.index) /\ x = Position(L[c], x.index)
    BY <1>1, <1>5, PositionsAre
  <2>2. PICK c : Within(p, L, lo, t, c, consumed.index) /\ consumed = Position(L[c], consumed.index)
    BY <2>1
  <2>3. PICK d : Within(p, L, lo, t, d, examined.index) /\ examined = Position(L[d], examined.index)
    BY <2>1
  <2> DEFINE o == Offset(p, examined)
             x == consumed.index
             n == Number(p, base, L[c], x)
  <2>4. /\ Data(e, reader, L, lo, hi, t, base, h, m, w)
        /\ e.lastExamined = o /\ e.notConsumed = m - base - o /\ p.notConsumed = m - base - p.lastExamined
        /\ e.notFlushed = p.notFlushed /\ e.segments = p.segments
        /\ e.readingHead = p.readingHead /\ e.readingTail = p.readingTail
        /\ e.writerComplete = p.writerComplete /\ e.readerComplete = p.readerComplete
    BY <1>1, <2>1, <2>3, ExamineData
  <2>5. o \in Nat /\ base + o <= m
    BY <1>1, <2>1, <2>3, WithinIs
  <2>6. /\ c \in lo .. hi /\ x \in Nat /\ Offset(p, consumed) \in Nat /\ n = base + Offset(p, consumed)
        /\ base + Offset(p, consumed) <= m
    BY <1>1, <2>1, <2>2, WithinIs
  <2>7. Offset(p, consumed) <= o /\ o >= p.lastExamined
    BY <2>1 DEF MayAdvance
  <2> HIDE DEF e, o, n
  <2>8. Within(e, L, lo, t, c, x) /\ Offset(e, consumed) = Offset(p, consumed) /\ Number(e, base, L[c], x) = n
    BY <2>2, <2>4 DEF Within, Offset, Number, n
  <2>9. HasData(v, z, n, m, w) /\ CountsKept(v, e)
    <3>1. Offset(e, Position(L[c], x)) <= e.lastExamined
      BY <2>2, <2>4, <2>7, <2>8
    <3>2. v = Consume(e, Position(L[c], x))
      BY <2>2
    <3> HIDE DEF v, x
    <3>3. LET u == Consume(e, Position(L[c], x))
          IN  HasData(u, z, Number(e, base, L[c], x), m, w) /\ CountsKept(u, e)
      BY <2>1, <2>4, <2>8, <3>1, ConsumeData
    <3> QED BY <2>8, <3>2, <3>3
  <2>10. n \in Nat /\ h <= n /\ n <= m
    <3>1. n \in Nat /\ n <= m
      BY <1>2, <2>6
    <3>2. /\ Placed(p, L, lo, hi, t, base, h, m, w) /\ Stored(p, L, lo, hi, base) /\ lo \in lo .. hi /\ lo \in Nat /\ hi \in Nat
      BY <1>1, <2>1, DataFacts, DataOrder
    <3>3. p.readingHead.index \in Nat
      BY <1>3, PositionIs
    <3>4. IF lo = c THEN p.readingHead.index <= x ELSE p.readingHead.index <= p.segments[L[lo]].end
      BY <2>2, <3>2 DEF Within, Placed
    <3>5. lo <= c
      BY <2>6, <3>2
    <3>6. Number(p, base, L[lo], p.readingHead.index) <= Number(p, base, L[c], x)
      BY <2>6, <3>2, <3>3, <3>4, <3>5, NumberOrder
    <3> QED BY <3>1, <3>2, <3>6 DEF Placed, n
  <2>11. e.notConsumed <= p.notConsumed
    BY <1>2, <1>3, <2>4, <2>5, <2>7
  <2>12. examined = p.readingTail => e.notConsumed = 0
    <3> SUFFICES ASSUME examined = p.readingTail PROVE e.notConsumed = 0
      OBVIOUS
    <3>1. m = Number(p, base, p.readingTail.segment, p.readingTail.index)
      <4>1. Placed(p, L, lo, hi, t, base, h, m, w)
        BY <1>1, <2>1, DataFacts
      <4> QED BY <4>1 DEF Placed
    <3>2. o = p.segments[p.readingTail.segment].running + p.readingTail.index
      BY DEF Offset, o
    <3>3. p.readingTail.index \in Nat /\ p.segments[p.readingTail.segment].running \in Nat
      <4>1. p.readingTail.index \in Nat
        BY <1>3, PositionIs
      <4>2. Stored(p, L, lo, hi, base) /\ d \in lo .. hi /\ Position(L[d], examined.index).segment = L[d]
        BY <1>1, <2>1, <2>3, WithinIs, DataFacts
      <4>3. p.segments[L[d]].running \in Nat
        BY <4>2, StoredFacts
      <4> QED BY <2>3, <4>1, <4>2, <4>3
    <3>4. m = base + o
      BY <1>2, <3>1, <3>2, <3>3, SMTT(30) DEF Number
    <3> QED BY <1>2, <2>4, <2>5, <3>4
  <2>13. v.lastExamined # -1
    BY <2>4, <2>5, <2>9 DEF CountsKept
  <2> HIDE DEF v
  <2> QED BY <2>4, <2>9, <2>10, <2>11, <2>12, <2>13 DEF CountsKept, e, v
<1> QED BY <1>1, <1>4, <1>5, PositionsAre

-----------------------------------------------------------------------------
(* CompletePipe.                                                           *)

\* The segments of the whole list.
LEMMA WholeChain ==
    ASSUME NEW q, NEW r, NEW L, NEW lo, NEW hi, NEW t, NEW base, NEW h, NEW m, NEW w,
           Data(q, r, L, lo, hi, t, base, h, m, w)
    PROVE  Chain(q, IF q.readingHead.segment = Null THEN q.readingTail.segment ELSE q.readingHead.segment, Null)
               = Piece(L, lo, hi + 1)
<1> DEFINE first == IF q.readingHead.segment = Null THEN q.readingTail.segment ELSE q.readingHead.segment
<1>1. /\ SegmentsTyped(q) /\ Linked(q, L, lo, hi) /\ lo \in Nat /\ hi \in Nat /\ lo <= hi + 1 /\ L \in Lists
  BY DataOrder DEF Data, Stored
<1>2. CASE lo <= hi
  <2>1. Placed(q, L, lo, hi, t, base, h, m, w) /\ Stored(q, L, lo, hi, base) /\ lo \in lo .. hi
    BY <1>2, DataFacts
  <2>2. q.readingHead.segment = L[lo] /\ L[lo] # Null
    BY <2>1, StoredFacts DEF Placed
  <2>3. Behind(L, hi + 1, hi) = Null /\ hi + 1 \in lo .. hi + 1
    BY <1>1 DEF Behind
  <2>4. Chain(q, L[lo], Null) = Piece(L, lo, hi + 1)
    <3> DEFINE b == hi + 1
    <3> HIDE DEF b
    <3>1. Behind(L, b, hi) = Null /\ b \in lo .. hi + 1
      BY <2>3 DEF b
    <3>2. Chain(q, L[lo], Behind(L, b, hi)) = Piece(L, lo, b)
      BY <1>1, <2>1, <3>1, ChainIs
    <3> QED BY <3>1, <3>2 DEF b
  <2> QED BY <2>2, <2>4
<1>3. CASE ~(lo <= hi)
  <2>1. first = Null
    BY <1>3 DEF Data, Vacant
  <2>2. \A s \in Segments : q.segments[s] = EmptySegment
    <3>1. \A i \in lo .. hi : FALSE
      BY <1>1, <1>3
    <3> QED BY <1>1, <3>1 DEF Linked
  <2>3. Chain(q, Null, Null) = <<>>
    BY <1>1, <2>2, ChainOfNull
  <2>4. hi + 1 = lo
    BY <1>1, <1>3
  <2>5. Piece(L, lo, hi + 1) = <<>>
    BY <1>1, <2>4, PieceEmpty
  <2> QED BY <2>1, <2>3, <2>5
<1> QED BY <1>2, <1>3

\* CompletePipe empties the list and the pool.
LEMMA CompleteData ==
    ASSUME NEW q, NEW r, NEW h, NEW m, NEW w, HasData(q, r, h, m, w), ~q.writing, NEW z, z.at # "holding"
    PROVE  LET v == CompletePipe(q)
           IN  /\ HasData(v, z, w, w, w) /\ v.allocated = {}
               /\ v.notConsumed = q.notConsumed /\ v.notFlushed = q.notFlushed /\ v.lastExamined = -1
               /\ v.writing = q.writing
               /\ v.writerComplete = q.writerComplete /\ v.readerComplete = q.readerComplete
<1>1. PICK L, lo, hi, t, base : Data(q, r, L, lo, hi, t, base, h, m, w)
  BY DEF HasData
<1> DEFINE d == hi + 1
           list == Piece(L, lo, d)
           f == FreeSegments(q, list, FALSE)
           head == [f.readingHead EXCEPT !.segment = Null]
           tail == [f.readingTail EXCEPT !.segment = Null]
           rest == f.allocated \ ToSet(q.pool)
           v == [f EXCEPT !.allocated = rest, !.pool = <<>>, !.readingHead = head, !.readingTail = tail,
                          !.writingHead = Null, !.lastExamined = -1, !.memory = NoMemory]
<1>2. /\ q \in PipeType /\ Stored(q, L, lo, hi, base) /\ Pooled(q, L, lo, hi) /\ Lent(q, L, lo, hi, m, w)
      /\ lo \in Nat /\ hi \in Nat /\ lo <= hi + 1 /\ w \in Nat /\ m \in Nat /\ L \in Lists
  BY <1>1, DataOrder DEF Data
<1>3. d \in lo .. hi + 1 /\ d \in Nat /\ lo <= d
  BY <1>2
<1>4. CompletePipe(q) = v
  <2> DEFINE first == IF q.readingHead.segment = Null THEN q.readingTail.segment ELSE q.readingHead.segment
  <2>1. Chain(q, first, Null) = list
    BY <1>1, WholeChain
  <2> HIDE DEF list
  <2>2. FreeSegments(q, Chain(q, first, Null), FALSE) = f
    BY <2>1
  <2> HIDE DEF f
  <2> QED BY <2>2, ZenonT(30) DEF CompletePipe
<1> HIDE DEF d
<1>5. /\ f \in PipeType /\ SameRest(f, q) /\ Pooled(f, L, d, hi)
      /\ f.segments = [s \in Segments |-> IF s \in {L[i] : i \in lo .. d - 1} THEN EmptySegment ELSE q.segments[s]]
  <2> DEFINE allow == FALSE
  <2>1. allow \in BOOLEAN /\ f = FreeSegments(q, Piece(L, lo, d), allow)
    OBVIOUS
  <2> HIDE DEF allow, f
  <2> QED BY <1>2, <1>3, <2>1, FreeSegmentsIs
<1>6. \A s \in Segments : f.segments[s] = EmptySegment
  <2>1. \A i \in lo .. hi : i \in lo .. d - 1
    BY <1>2 DEF d
  <2>2. \A s \in Segments : (\A i \in lo .. hi : L[i] # s) => q.segments[s] = EmptySegment
    BY <1>2 DEF Stored, Linked
  <2> QED BY <1>5, <2>1, <2>2, ZenonT(30)
<1>7. rest = {}
  <2>1. /\ \A i \in lo .. d - 1 : L[i] \in Segments
        /\ \A i, j \in lo .. d - 1 : L[i] = L[j] => i = j
    <3>1. \A i \in lo .. d - 1 : i \in lo .. hi
      BY <1>2 DEF d
    <3> QED BY <1>2, <3>1 DEF Stored, Linked
  <2>2. ToSet(list) = {L[i] : i \in lo .. d - 1} /\ list \in Seq(Segments) /\ Len(list) \in Nat
    <3>1. ToSet(list) = {L[i] : i \in lo .. d - 1} /\ list \in Seq(Segments)
      BY <1>2, <1>3, <2>1, PieceSet
    <3> QED BY <3>1, LenProperties
  <2>3. {L[i] : i \in lo .. d - 1} = {L[i] : i \in lo .. hi}
    <3>1. lo .. d - 1 = lo .. hi
      BY <1>2 DEF d
    <3> QED BY <3>1
  <2>4. f.allocated = q.allocated \ ToSet(list)
    <3> DEFINE k == IF 0 < Len(list) THEN 0 ELSE Len(list)
               kept == SubSeq(list, 1, k)
    <3>1. k = 0
      <4> HIDE DEF list
      <4> QED BY <2>2
    <3>2. kept = <<>>
      <4>1. SubSeq(list, 1, 0) = <<>>
        <5> HIDE DEF list
        <5> QED BY <2>2, SubSeqEmpty
      <4> HIDE DEF k
      <4> QED BY <3>1, <4>1
    <3>3. ToSet(kept) = {}
      BY <3>2 DEF ToSet
    <3> DEFINE all == [s \in Segments |-> IF s \in ToSet(list) THEN EmptySegment ELSE q.segments[s]]
               pool == q.pool \o kept
               left == q.allocated \ (ToSet(list) \ ToSet(kept))
    <3>4. f = [q EXCEPT !.segments = all, !.pool = pool, !.allocated = left]
      <4> HIDE DEF list
      <4> QED BY DEF FreeSegments
    <3>5. left = q.allocated \ ToSet(list)
      BY <3>3
    <3> HIDE DEF all, pool, left, f
    <3>6. f.allocated = left
      BY <1>2, <3>4 DEF PipeType
    <3> QED BY <3>5, <3>6
  <2>5. q.allocated = {L[i] : i \in lo .. hi} \cup ToSet(q.pool)
    BY <1>2 DEF Pooled
  <2> HIDE DEF list, f
  <2> QED BY <2>2, <2>3, <2>4, <2>5
<1> HIDE DEF f, list
<1>8. head \in PositionType /\ tail \in PositionType /\ head.segment = Null /\ tail.segment = Null
  <2>1. f.readingHead \in PositionType /\ f.readingTail \in PositionType
    BY <1>5, PipeFields
  <2> QED BY <2>1 DEF PositionType
<1>9. NoMemory \in MemoryType /\ <<>> \in Seq(Segments) /\ Len(<<>>) = 0
  <2>1. <<>> \in Seq(Segments) /\ Len(<<>>) = 0
    BY EmptySeq
  <2> QED BY <2>1 DEF NoMemory, MemoryType
<1> HIDE DEF head, tail, rest
<1>10. v \in PipeType
  BY <1>5, <1>7, <1>8, <1>9 DEF PipeType
<1>11. /\ v.segments = f.segments /\ v.allocated = {} /\ v.pool = <<>>
       /\ v.notConsumed = f.notConsumed /\ v.notFlushed = f.notFlushed /\ v.buffered = f.buffered
       /\ v.lastExamined = -1 /\ v.readingHead = head /\ v.readingTail = tail
       /\ v.writingHead = Null /\ v.memory = NoMemory /\ v.writing = f.writing
       /\ v.writerComplete = f.writerComplete /\ v.readerComplete = f.readerComplete
  BY <1>5, <1>7 DEF PipeType
<1> HIDE DEF v
<1>12. /\ v.notConsumed = q.notConsumed /\ v.notFlushed = q.notFlushed /\ v.buffered = q.buffered
       /\ v.writing = q.writing /\ v.writerComplete = q.writerComplete /\ v.readerComplete = q.readerComplete
  BY <1>5, <1>11 DEF SameRest
<1>13. m = w /\ q.buffered = 0 /\ q.notFlushed = 0
  <2>1. q.buffered = 0 /\ q.notFlushed = 0 /\ q.notFlushed = w - m
    BY <1>2 DEF Lent
  <2> QED BY <1>2, <2>1
<1>14. \A i \in d .. hi : FALSE
  BY <1>2, <1>3 DEF d
<1>15. Stored(v, L, d, hi, w)
  <2>1. SegmentsTyped(v) /\ v.buffered \in Nat
    BY <1>10, PipeFields
  <2>2. Linked(v, L, d, hi)
    BY <1>6, <1>11, <1>14 DEF Linked
  <2>3. Indexed(v, L, d, hi) /\ Filling(v, L, d, hi, w)
    BY <1>14 DEF Indexed, Filling
  <2> QED BY <1>2, <1>3, <2>1, <2>2, <2>3 DEF Stored
<1>16. Pooled(v, L, d, hi)
  <2>1. ToSet(<<>>) = {} /\ {L[i] : i \in d .. hi} = {} /\ IsInjective(<<>>)
    BY <1>14 DEF ToSet, IsInjective
  <2>2. Len(v.pool) <= MaximumSegmentPoolSize
    BY <1>9, <1>11, SizesAssumption
  <2> QED BY <1>11, <2>1, <2>2 DEF Pooled
<1>17. Vacant(v, w, w, w, w)
  BY <1>8, <1>11, <1>12 DEF Vacant
<1>18. Lent(v, L, d, hi, w, w)
  <2>1. v.notFlushed = w - w /\ v.buffered = 0 /\ v.notFlushed = 0
    BY <1>2, <1>12, <1>13
  <2>2. ~(v.memory.length > 0)
    BY <1>11 DEF NoMemory
  <2> QED BY <2>1, <2>2 DEF Lent
<1>19. Data(v, z, L, d, hi, t, w, w, w, w)
  <2>1. Held(v, z, L, d, hi, t)
    BY DEF Held
  <2>2. ~(d <= hi) /\ d <= hi + 1
    BY <1>2 DEF d
  <2> QED BY <1>10, <1>15, <1>16, <1>17, <1>18, <2>1, <2>2 DEF Data
<1>20. HasData(v, z, w, w, w)
  BY <1>19 DEF HasData
<1> QED BY <1>4, <1>11, <1>12, <1>20

-----------------------------------------------------------------------------
(* What follows for the state of the pipe.                                 *)

\* A result that is empty holds no bytes.
LEMMA BytesOfNone ==
    ASSUME NEW q, NEW L, NEW lo, NEW hi, NEW base, Stored(q, L, lo, hi, base), lo <= hi
    PROVE  Bytes(q, NoPosition, NoPosition) = <<>>
<1> DEFINE first(i) == Number(q, base, L[i], 0)
           last(i) == Number(q, base, L[i], q.segments[L[i]].end)
           InList(r) == \E i \in lo .. hi : L[i] = r
           Place(r) == CHOOSE i \in lo .. hi : L[i] = r
           Value(i) == Numbers(first(i), last(hi))
           g == [r \in Segments \cup {Null} |->
                   IF r = Null THEN <<>> ELSE IF InList(r) THEN Value(Place(r)) ELSE <<>>]
<1>1. lo \in Nat /\ hi \in Nat /\ hi \in lo .. hi /\ Indexed(q, L, lo, hi) /\ base \in Nat
  BY DEF Stored
<1>2. ASSUME NEW i \in lo .. hi
      PROVE  /\ L[i] \in Segments /\ L[i] # Null /\ q.segments[L[i]].next = Behind(L, i + 1, hi)
             /\ Slice(q.segments[L[i]].memory, 0, q.segments[L[i]].end) = Numbers(first(i), last(i))
             /\ first(i) \in Nat /\ last(i) \in Nat /\ first(i) <= last(i)
             /\ q.segments[L[i]].running \in Nat /\ q.segments[L[i]].end \in Nat
  <2>1. /\ L[i] \in Segments /\ L[i] # Null /\ q.segments[L[i]].next = Behind(L, i + 1, hi)
        /\ q.segments[L[i]].end \in Nat /\ q.segments[L[i]].running \in Nat
        /\ q.segments[L[i]].end <= Filled(q, L[i])
    BY StoredFacts
  <2>2. 0 \in Nat /\ 0 <= q.segments[L[i]].end
    BY <2>1
  <2> QED BY <2>1, <2>2, SegmentSlice
<1>3. ASSUME NEW i \in lo .. hi, NEW j \in lo .. hi, i < j
      PROVE  last(i) <= first(j) /\ (j = i + 1 => last(i) = first(j))
  <2>1. /\ q.segments[L[i]].running + q.segments[L[i]].end <= q.segments[L[j]].running
        /\ j = i + 1 => q.segments[L[i]].running + q.segments[L[i]].end = q.segments[L[j]].running
    BY <1>1, <1>3 DEF Indexed
  <2>2. /\ q.segments[L[i]].running \in Nat /\ q.segments[L[i]].end \in Nat /\ q.segments[L[j]].running \in Nat
    BY <1>2
  <2>3. \A a, b, c, d \in Nat : b + c <= d => a + b + c <= a + d + 0 /\ (b + c = d => a + b + c = a + d + 0)
    OBVIOUS
  <2> QED BY <1>1, <2>1, <2>2, <2>3 DEF Number
<1>4. \A i \in lo .. hi : InList(L[i]) /\ Place(L[i]) = i
  <2> SUFFICES ASSUME NEW i \in lo .. hi PROVE InList(L[i]) /\ Place(L[i]) = i
    OBVIOUS
  <2>1. Place(L[i]) \in lo .. hi /\ L[Place(L[i])] = L[i]
    OBVIOUS
  <2>2. \A j \in lo .. hi : L[i] = L[j] <=> i = j
    BY StoredFacts
  <2> QED BY <2>1, <2>2
<1> HIDE DEF first, last, Place
<1>5. g[Null] = <<>> /\ \A i \in lo .. hi : g[L[i]] = Value(i)
  BY <1>2, <1>4
<1> HIDE DEF g
<1>6. NoPosition.segment = Null /\ NoPosition.index = 0
  BY DEF NoPosition, Position
<1>7. ASSUME NEW r \in Segments
      PROVE  g[r] = Join(Slice(q.segments[r].memory, 0, q.segments[r].end), g[q.segments[r].next])
  <2>1. CASE ~InList(r)
    <3>1. q.segments[r] = EmptySegment
      BY <2>1 DEF Stored, Linked
    <3>2. g[r] = <<>>
      BY <2>1, NullIsNone DEF g
    <3>3. Slice(<<>>, 0, 0) = <<>> /\ Join(<<>>, <<>>) = <<>>
      BY SliceOfNothing
    <3> QED BY <1>5, <3>1, <3>2, <3>3 DEF EmptySegment
  <2>2. CASE InList(r)
    <3>1. PICK i \in lo .. hi : L[i] = r
      BY <2>2
    <3>2. /\ g[r] = Numbers(first(i), last(hi))
          /\ Slice(q.segments[r].memory, 0, q.segments[r].end) = Numbers(first(i), last(i))
          /\ q.segments[r].next = Behind(L, i + 1, hi)
          /\ first(i) \in Nat /\ last(i) \in Nat /\ first(i) <= last(i)
      BY <1>2, <1>5, <3>1
    <3>3. CASE i = hi
      <4>1. q.segments[r].next = Null
        BY <3>2, <3>3 DEF Behind
      <4>2. Join(Numbers(first(i), last(i)), <<>>) = Numbers(first(i), last(i))
        BY <3>2, JoinNumbers
      <4> QED BY <1>5, <3>2, <3>3, <4>1, <4>2
    <3>4. CASE i # hi
      <4> DEFINE j == i + 1
      <4>1. j \in lo .. hi /\ i < j /\ i < hi /\ Behind(L, j, hi) = L[j]
        BY <1>1, <3>4 DEF Behind
      <4>2. last(i) = first(j) /\ first(j) \in Nat /\ last(j) \in Nat /\ first(j) <= last(j) /\ last(hi) \in Nat
        BY <1>1, <1>2, <1>3, <4>1
      <4>3. last(i) <= last(hi)
        <5>1. last(i) <= first(hi) /\ first(hi) <= last(hi) /\ first(hi) \in Nat
          BY <1>1, <1>2, <1>3, <4>1
        <5> QED BY <3>2, <4>2, <5>1
      <4>4. Join(Numbers(first(i), last(i)), Numbers(last(i), last(hi))) = Numbers(first(i), last(hi))
        BY <3>2, <4>2, <4>3, JoinNumbers
      <4>5. g[q.segments[r].next] = Numbers(last(i), last(hi))
        BY <1>5, <3>2, <4>1, <4>2
      <4> QED BY <3>2, <4>4, <4>5
    <3> QED BY <3>3, <3>4
  <2> QED BY <2>1, <2>2
<1>8. g = BytesStep(q, NoPosition, NoPosition, g)
  <2>1. g = [r \in Segments \cup {Null} |-> g[r]]
    BY DEF g
  <2>2. \A r \in Segments \cup {Null} : g[r] =
          IF r = Null THEN <<>>
          ELSE IF r = NoPosition.segment THEN Slice(q.segments[r].memory, Low(NoPosition, r), NoPosition.index)
          ELSE Join(Slice(q.segments[r].memory, Low(NoPosition, r), q.segments[r].end), g[q.segments[r].next])
    BY <1>5, <1>6, <1>7, NullIsNone DEF Low
  <2> QED BY <2>1, <2>2 DEF BytesStep
<1>9. PICK f : f = BytesStep(q, NoPosition, NoPosition, f) /\ Bytes(q, NoPosition, NoPosition) = f[NoPosition.segment]
  BY <1>8, BytesUnfold
<1> QED BY <1>6, <1>9 DEF BytesStep

\* All of the pipe but its flags of completion.
SameContents(v, q) ==
    /\ v.notConsumed = q.notConsumed /\ v.notFlushed = q.notFlushed /\ v.buffered = q.buffered
    /\ v.lastExamined = q.lastExamined /\ v.readingHead = q.readingHead /\ v.readingTail = q.readingTail
    /\ v.writingHead = q.writingHead /\ v.memory = q.memory /\ v.writing = q.writing

\* The flags of completion say nothing of what the pipe holds.
LEMMA MarkData ==
    ASSUME NEW q, NEW r, NEW h, NEW m, NEW w, HasData(q, r, h, m, w),
           NEW v \in PipeType, v.segments = q.segments, v.allocated = q.allocated, v.pool = q.pool, SameContents(v, q)
    PROVE  HasData(v, r, h, m, w)
<1>1. PICK L, lo, hi, t, base : Data(q, r, L, lo, hi, t, base, h, m, w)
  BY DEF HasData
<1>2. q \in PipeType /\ Stored(q, L, lo, hi, base) /\ lo <= hi + 1 /\ Pooled(q, L, lo, hi)
      /\ Lent(q, L, lo, hi, m, w) /\ Held(q, r, L, lo, hi, t)
  BY <1>1 DEF Data
<1>3. \A s : Filled(v, s) = Filled(q, s)
  BY DEF Filled, SameContents
<1>4. Stored(v, L, lo, hi, base)
  <2>1. v.buffered \in Nat
    BY PipeFields
  <2> QED BY <1>2, <1>3, <2>1, SameStored
<1>5. Pooled(v, L, lo, hi)
  BY <1>2 DEF Pooled
<1>6. Lent(v, L, lo, hi, m, w)
  BY <1>2, <1>3 DEF Lent, SameContents
<1>7. Held(v, r, L, lo, hi, t)
  BY <1>2 DEF Held, SameContents
<1>8. IF lo <= hi THEN Placed(v, L, lo, hi, t, base, h, m, w) ELSE Vacant(v, base, h, m, w)
  <2>1. CASE lo <= hi
    <3>1. Placed(q, L, lo, hi, t, base, h, m, w)
      BY <1>1, <2>1 DEF Data
    <3>2. Placed(v, L, lo, hi, t, base, h, m, w)
      BY <1>3, <3>1 DEF Placed, Number, SameContents
    <3> QED BY <2>1, <3>2
  <2>2. CASE ~(lo <= hi)
    <3>1. Vacant(q, base, h, m, w)
      BY <1>1, <2>2 DEF Data
    <3>2. Vacant(v, base, h, m, w)
      BY <3>1 DEF Vacant, SameContents
    <3> QED BY <2>2, <3>2
  <2> QED BY <2>1, <2>2
<1>9. Data(v, r, L, lo, hi, t, base, h, m, w)
  BY <1>2, <1>4, <1>5, <1>6, <1>7, <1>8 DEF Data
<1> QED BY <1>9 DEF HasData

\* SegmentsKept, at any moment.
LEMMA DataKept ==
    ASSUME NEW h, NEW m, NEW w, HasData(p, reader, h, m, w)
    PROVE  SegmentsKept
<1>1. PICK L, lo, hi, t, base : Data(p, reader, L, lo, hi, t, base, h, m, w)
  BY DEF HasData
<1> DEFINE list == {L[i] : i \in lo .. hi}
<1>2. /\ p \in PipeType /\ Stored(p, L, lo, hi, base) /\ Pooled(p, L, lo, hi) /\ Lent(p, L, lo, hi, m, w)
      /\ Held(p, reader, L, lo, hi, t) /\ lo \in Nat /\ hi \in Nat /\ lo <= hi + 1 /\ L \in Lists
  BY <1>1, DataOrder DEF Data
<1>3. Listed = list
  <2> DEFINE d == hi + 1
  <2>1. Listed = ToSet(Piece(L, lo, d))
    BY <1>1, WholeChain DEF Listed
  <2>2. d \in Nat /\ lo <= d /\ lo .. d - 1 = lo .. hi
    BY <1>2
  <2>3. (\A i \in lo .. d - 1 : L[i] \in Segments) /\ \A i, j \in lo .. d - 1 : L[i] = L[j] => i = j
    BY <1>2, <2>2 DEF Stored, Linked
  <2> HIDE DEF d
  <2>4. ToSet(Piece(L, lo, d)) = {L[i] : i \in lo .. d - 1}
    BY <1>2, <2>2, <2>3, PieceSet
  <2> QED BY <2>1, <2>2, <2>4
<1>4. /\ Listed \cup ToSet(p.pool) = p.allocated
      /\ Listed \cap ToSet(p.pool) = {} /\ IsInjective(p.pool)
  BY <1>2, <1>3 DEF Pooled
<1>5. \A s \in Listed : p.segments[s].end <= Len(p.segments[s].memory)
  <2> SUFFICES ASSUME NEW i \in lo .. hi PROVE p.segments[L[i]].end <= Len(p.segments[L[i]].memory)
    BY <1>3
  <2>1. /\ p.segments[L[i]].end \in Nat /\ Filled(p, L[i]) \in Nat /\ p.segments[L[i]].end <= Filled(p, L[i])
        /\ Len(p.segments[L[i]].memory) \in Nat
    BY <1>2, StoredFacts
  <2>2. Filled(p, L[i]) <= Len(p.segments[L[i]].memory)
    BY <1>2 DEF Stored, Filling
  <2> QED BY <2>1, <2>2
<1>6. CASE lo <= hi
  <2>1. /\ Placed(p, L, lo, hi, t, base, h, m, w) /\ t \in lo .. hi /\ lo \in lo .. hi /\ hi \in lo .. hi
        /\ p.writingHead = L[hi]
    BY <1>1, <1>6, DataFacts
  <2>2. p.memory.length > 0 => p.memory.segment = p.writingHead
    BY <1>2, <2>1 DEF Lent
  <2>3. p.writingHead \in Listed
    BY <1>3, <2>1
  <2>4. reader.at = "holding" => {reader.begin.segment, reader.end.segment} \subseteq Listed \cup {Null}
    <3> SUFFICES ASSUME reader.at = "holding"
                 PROVE  {reader.begin.segment, reader.end.segment} \subseteq Listed \cup {Null}
      OBVIOUS
    <3>1. CASE reader.begin = NoPosition /\ reader.end = NoPosition
      BY <3>1 DEF NoPosition, Position
    <3>2. CASE ~(reader.begin = NoPosition /\ reader.end = NoPosition)
      <4>1. reader.begin = p.readingHead /\ \E e \in lo .. t : reader.end.segment = L[e]
        BY <1>2, <3>2 DEF Held
      <4>2. reader.begin.segment \in Listed
        BY <1>3, <2>1, <4>1 DEF Placed
      <4>3. \A e \in lo .. t : e \in lo .. hi
        BY <1>2, <2>1
      <4>4. reader.end.segment \in Listed
        BY <1>3, <4>1, <4>3
      <4> QED BY <4>2, <4>4
    <3> QED BY <3>1, <3>2
  <2> QED BY <1>4, <1>5, <2>2, <2>3, <2>4 DEF SegmentsKept
<1>7. CASE ~(lo <= hi)
  <2>1. ~p.writing /\ ~(p.memory.length > 0)
    BY <1>1, <1>7 DEF Data, Vacant, NoMemory
  <2>2. reader.at = "holding" => {reader.begin.segment, reader.end.segment} \subseteq Listed \cup {Null}
    BY <1>2, <1>7 DEF Held, NoPosition, Position
  <2> QED BY <1>4, <1>5, <2>1, <2>2 DEF SegmentsKept
<1> QED BY <1>6, <1>7

\* The counts of the bytes, before the pipe is freed.
LEMMA DataCounted ==
    ASSUME NEW h, NEW m, NEW w, HasData(p, reader, h, m, w), p.lastExamined # -1
    PROVE  /\ p.notFlushed = Len(UnflushedBytes)
           /\ p.notConsumed = IF p.readingTail.segment = Null THEN 0 ELSE Offset(p, p.readingTail) - p.lastExamined
<1>1. PICK L, lo, hi, t, base : Data(p, reader, L, lo, hi, t, base, h, m, w)
  BY DEF HasData
<1>2. /\ p \in PipeType /\ Lent(p, L, lo, hi, m, w) /\ m \in Nat /\ w \in Nat /\ m <= w /\ base \in Nat
      /\ p.lastExamined \in Nat
  BY <1>1, DataOrder, PipeFields DEF Data
<1>3. p.notFlushed = Len(UnflushedBytes)
  <2>1. UnflushedBytes = Numbers(m, w)
    BY <1>1, StreamIs DEF UnflushedBytes, UnflushedOf
  <2>2. Len(Numbers(m, w)) = w - m
    BY <1>2, NumbersSeq
  <2> QED BY <1>2, <2>1, <2>2 DEF Lent
<1>4. CASE lo <= hi
  <2>1. Placed(p, L, lo, hi, t, base, h, m, w) /\ t \in lo .. hi /\ Stored(p, L, lo, hi, base)
    BY <1>1, <1>4, DataFacts
  <2>2. p.readingTail.segment = L[t] /\ L[t] # Null /\ p.segments[L[t]].running \in Nat
    BY <2>1, StoredFacts DEF Placed
  <2>3. p.readingTail.index \in Nat
    BY <1>2, PipeFields, PositionIs
  <2>4. m = base + p.segments[L[t]].running + p.readingTail.index /\ p.notConsumed = m - base - p.lastExamined
    BY <2>1 DEF Placed, Number
  <2>5. \A a, b, c, d \in Nat : a + b + c - a - d = b + c - d
    OBVIOUS
  <2>6. p.notConsumed = p.segments[L[t]].running + p.readingTail.index - p.lastExamined
    BY <1>2, <2>2, <2>3, <2>4
  <2>7. Offset(p, p.readingTail) = p.segments[L[t]].running + p.readingTail.index
    BY <2>2 DEF Offset
  <2>8. p.notConsumed = Offset(p, p.readingTail) - p.lastExamined
    BY <1>2, <2>2, <2>3, <2>6, <2>7
  <2> QED BY <1>3, <2>2, <2>8
<1>5. CASE ~(lo <= hi)
  <2>1. p.readingTail.segment = Null /\ p.notConsumed = 0
    BY <1>1, <1>5 DEF Data, Vacant
  <2> QED BY <1>3, <2>1
<1> QED BY <1>4, <1>5

\* A beginning of the numbers is a prefix of them.
LEMMA NumbersPrefix ==
    ASSUME NEW a \in Nat, NEW b \in Nat, NEW c \in Nat, a <= b, b <= c
    PROVE  IsPrefix(Numbers(a, b), Numbers(a, c))
<1> DEFINE s == Numbers(a, b)
           t == Numbers(a, c)
<1>1. /\ s \in Seq(Nat) /\ Len(s) = b - a /\ \A k \in 1 .. b - a : s[k] = a + k
      /\ t \in Seq(Nat) /\ Len(t) = c - a /\ \A k \in 1 .. c - a : t[k] = a + k
  <2>1. a <= c
    OBVIOUS
  <2> QED BY <2>1, NumbersSeq
<1> HIDE DEF s, t
<1> DEFINE n == b - a
<1>2. n \in Nat /\ n <= Len(t) /\ Len(s) = n /\ Len(t) \in Nat
  BY <1>1
<1> HIDE DEF n
<1> DEFINE x == SubSeq(s, 1, n)
           y == SubSeq(t, 1, n)
<1>3. x \in Seq(Nat) /\ Len(x) = n /\ \A k \in 1 .. n : x[k] = s[k]
  BY <1>1, <1>2, SubSeqProperties
<1>4. y \in Seq(Nat) /\ Len(y) = n /\ \A k \in 1 .. n : y[k] = t[k]
  BY <1>1, <1>2, SubSeqProperties, SMTT(30)
<1>5. \A k \in 1 .. n : s[k] = t[k]
  BY <1>1 DEF n
<1> HIDE DEF x, y
<1>6. x = y
  BY <1>2, <1>3, <1>4, <1>5, SameSeq
<1> QED BY <1>2, <1>6 DEF IsPrefix, s, t, x, y

\* What the reader holds are the next bytes of the stream.
LEMMA DataRead ==
    ASSUME NEW h, NEW m, NEW w, HasData(p, reader, h, m, w)
    PROVE  ReadsTheStream
<1> SUFFICES ASSUME reader.at = "holding"
             PROVE  /\ IsPrefix(Bytes(p, reader.begin, reader.end), FlushedBytes)
                    /\ \A i \in 2 .. Len(Bytes(p, reader.begin, reader.end)) :
                         Bytes(p, reader.begin, reader.end)[i] = Bytes(p, reader.begin, reader.end)[i - 1] + 1
  BY DEF ReadsTheStream
<1>1. PICK L, lo, hi, t, base : Data(p, reader, L, lo, hi, t, base, h, m, w)
  BY DEF HasData
<1>2. /\ p \in PipeType /\ Stored(p, L, lo, hi, base) /\ Held(p, reader, L, lo, hi, t)
      /\ lo \in Nat /\ hi \in Nat /\ lo <= hi + 1 /\ L \in Lists /\ h \in Nat /\ m \in Nat /\ h <= m
  BY <1>1, DataOrder DEF Data
<1>3. FlushedBytes = Numbers(h, m)
  BY <1>1, StreamIs DEF FlushedBytes, FlushedOf
<1>4. ASSUME NEW n \in Nat, h <= n, n <= m, Bytes(p, reader.begin, reader.end) = Numbers(h, n)
      PROVE  /\ IsPrefix(Bytes(p, reader.begin, reader.end), FlushedBytes)
             /\ \A i \in 2 .. Len(Bytes(p, reader.begin, reader.end)) :
                         Bytes(p, reader.begin, reader.end)[i] = Bytes(p, reader.begin, reader.end)[i - 1] + 1
  <2>1. IsPrefix(Numbers(h, n), Numbers(h, m))
    BY <1>2, <1>4, NumbersPrefix
  <2> DEFINE s == Numbers(h, n)
  <2>2. Len(s) = n - h /\ \A k \in 1 .. n - h : s[k] = h + k
    BY <1>2, <1>4, NumbersSeq
  <2> HIDE DEF s
  <2>3. ASSUME NEW i \in 2 .. Len(s) PROVE s[i] = s[i - 1] + 1
    <3>1. i \in 1 .. n - h /\ i - 1 \in 1 .. n - h
      BY <1>2, <2>2
    <3>2. s[i] = h + i /\ s[i - 1] = h + (i - 1)
      BY <2>2, <3>1
    <3> QED BY <1>2, <3>1, <3>2
  <2> QED BY <1>3, <1>4, <2>1, <2>3 DEF s
<1>5. CASE reader.begin = NoPosition /\ reader.end = NoPosition
  <2>1. Bytes(p, NoPosition, NoPosition) = <<>>
    <3>1. CASE lo <= hi
      BY <1>2, <3>1, BytesOfNone
    <3>2. CASE ~(lo <= hi)
      <4>1. \A i \in lo .. hi : FALSE
        BY <1>2, <3>2
      <4>2. SegmentsTyped(p) /\ \A s \in Segments : p.segments[s] = EmptySegment
        BY <1>2, <4>1 DEF Stored, Linked
      <4>3. NoPosition.segment = Null
        BY DEF NoPosition, Position
      <4> QED BY <4>2, <4>3, BytesOfNull
    <3> QED BY <3>1, <3>2
  <2>2. Numbers(h, h) = <<>> /\ h <= h
    BY <1>2, NumbersEmpty
  <2> QED BY <1>2, <1>4, <1>5, <2>1, <2>2
<1>6. CASE ~(reader.begin = NoPosition /\ reader.end = NoPosition)
  <2>1. /\ lo <= hi /\ reader.begin = p.readingHead /\ reader.end \in PositionType
        /\ \E e \in lo .. t :
             /\ reader.end.segment = L[e] /\ reader.end.index <= p.segments[L[e]].end
             /\ e = t => reader.end.index <= p.readingTail.index
             /\ e = lo => reader.begin.index <= reader.end.index
    BY <1>2, <1>6 DEF Held
  <2>2. PICK e \in lo .. t :
             /\ reader.end.segment = L[e] /\ reader.end.index <= p.segments[L[e]].end
             /\ e = t => reader.end.index <= p.readingTail.index
             /\ e = lo => reader.begin.index <= reader.end.index
    BY <2>1
  <2>3. /\ Placed(p, L, lo, hi, t, base, h, m, w) /\ t \in lo .. hi /\ lo \in lo .. hi
    BY <1>1, <2>1, DataFacts
  <2>4. e \in lo .. hi /\ e \in Nat /\ t \in Nat /\ lo <= e /\ e <= t
    BY <1>2, <2>3
  <2> DEFINE x == reader.begin.index
             y == reader.end.index
  <2>5. /\ x \in Nat /\ y \in Nat /\ p.readingTail.index \in Nat
        /\ reader.begin = Position(L[lo], x) /\ reader.end = Position(L[e], y)
    <3>1. p.readingHead \in PositionType /\ p.readingTail \in PositionType
      BY <1>2, PipeFields
    <3>2. p.readingHead.segment = L[lo]
      BY <2>3 DEF Placed
    <3> QED BY <2>1, <2>2, <3>1, <3>2, PositionIs
  <2>6. /\ p.segments[L[e]].end \in Nat /\ Filled(p, L[e]) \in Nat /\ p.segments[L[e]].end <= Filled(p, L[e])
    BY <1>2, <2>4, StoredFacts
  <2>7. x <= p.segments[L[lo]].end /\ h = Number(p, base, L[lo], x) /\ m = Number(p, base, L[t], p.readingTail.index)
    BY <2>1, <2>3 DEF Placed
  <2> HIDE DEF x, y
  <2>8. y <= p.segments[L[e]].end /\ (e = t => y <= p.readingTail.index) /\ (e = lo => x <= y)
    BY <2>2 DEF x, y
  <2>9. /\ Bytes(p, Position(L[lo], x), Position(L[e], y)) = Numbers(Number(p, base, L[lo], x), Number(p, base, L[e], y))
        /\ Number(p, base, L[e], y) \in Nat /\ Number(p, base, L[lo], x) <= Number(p, base, L[e], y)
    <3>1. IF lo = e THEN x <= y ELSE x <= p.segments[L[lo]].end
      BY <2>7, <2>8
    <3>2. y <= Filled(p, L[e])
      BY <2>5, <2>6, <2>8
    <3> QED BY <1>2, <2>3, <2>4, <2>5, <3>1, <3>2, BytesAre
  <2>10. Number(p, base, L[e], y) <= m
    <3>1. IF e = t THEN y <= p.readingTail.index ELSE y <= p.segments[L[e]].end
      BY <2>8
    <3>2. Number(p, base, L[e], y) <= Number(p, base, L[t], p.readingTail.index)
      BY <1>2, <2>3, <2>4, <2>5, <3>1, NumberOrder
    <3> QED BY <2>7, <3>2
  <2> QED BY <1>4, <2>5, <2>7, <2>9, <2>10
<1> QED BY <1>5, <1>6
=============================================================================
