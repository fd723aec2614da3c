------------------------------ MODULE Pipe_lemmas ------------------------------
(***************************************************************************)
(* Lemmas about the operators of Pipe: its lists, its bytes and its pool.  *)
(***************************************************************************)
EXTENDS Pipe, SequenceTheorems, WellFoundedInduction, TLAPS

-----------------------------------------------------------------------------
(* Numbers from a + 1 to b, and the segments L[a], ..., L[b - 1].          *)

Numbers(a, b) == [k \in 1 .. b - a |-> a + k]
Pointers == Segments \cup {Null}
Lists == [Nat -> Pointers]
Piece(L, a, b) == [k \in 1 .. b - a |-> L[a + k - 1]]

\* A function on 1 .. n is a sequence.
LEMMA IsSeq ==
    ASSUME NEW S, NEW n \in Nat, NEW f \in [1 .. n -> S]
    PROVE  f \in Seq(S) /\ Len(f) = n /\ DOMAIN f = 1 .. n
OBVIOUS

\* Sequences of the same length with the same elements.
LEMMA SameSeq ==
    ASSUME NEW S, NEW s \in Seq(S), NEW t \in Seq(S), NEW n \in Nat, Len(s) = n, Len(t) = n,
           \A i \in 1 .. n : s[i] = t[i]
    PROVE  s = t
BY SeqEqual

\* Consecutive numbers, as a sequence.
LEMMA NumbersSeq ==
    ASSUME NEW a \in Nat, NEW b \in Nat, a <= b
    PROVE  /\ Numbers(a, b) \in Seq(Nat) /\ Len(Numbers(a, b)) = b - a
           /\ \A k \in 1 .. b - a : Numbers(a, b)[k] = a + k
<1>1. Numbers(a, b) \in [1 .. b - a -> Nat] /\ b - a \in Nat
  BY DEF Numbers
<1> QED BY <1>1, IsSeq DEF Numbers

\* An interval without numbers.
LEMMA NumbersEmpty ==
    ASSUME NEW a \in Nat
    PROVE  Numbers(a, a) = <<>>
<1>1. Numbers(a, a) \in Seq(Nat) /\ Len(Numbers(a, a)) = 0
  BY NumbersSeq
<1> QED BY <1>1, EmptySeq

\* Intervals that meet are one.
LEMMA NumbersJoin ==
    ASSUME NEW a \in Nat, NEW b \in Nat, NEW c \in Nat, a <= b, b <= c
    PROVE  Numbers(a, b) \o Numbers(b, c) = Numbers(a, c)
<1>1. /\ Numbers(a, b) \in Seq(Nat) /\ Len(Numbers(a, b)) = b - a
      /\ \A k \in 1 .. b - a : Numbers(a, b)[k] = a + k
  BY NumbersSeq
<1>2. /\ Numbers(b, c) \in Seq(Nat) /\ Len(Numbers(b, c)) = c - b
      /\ \A k \in 1 .. c - b : Numbers(b, c)[k] = b + k
  BY NumbersSeq
<1>3. /\ Numbers(a, c) \in Seq(Nat) /\ Len(Numbers(a, c)) = c - a
      /\ \A k \in 1 .. c - a : Numbers(a, c)[k] = a + k
  <2>1. a <= c
    OBVIOUS
  <2> QED BY <2>1, NumbersSeq
<1> DEFINE s == Numbers(a, b)
           t == Numbers(b, c)
           u == Numbers(a, c)
           r == s \o t
<1> HIDE DEF s, t, u
<1>4. /\ r \in Seq(Nat) /\ Len(r) = Len(s) + Len(t)
      /\ \A i \in 1 .. Len(s) + Len(t) : r[i] = IF i <= Len(s) THEN s[i] ELSE t[i - Len(s)]
  BY <1>1, <1>2, ConcatProperties DEF s, t
<1> HIDE DEF r
<1>5. Len(s) = b - a /\ Len(t) = c - b /\ Len(r) = c - a /\ c - a \in Nat
  BY <1>1, <1>2, <1>4 DEF s, t
<1>6. \A i \in 1 .. c - a : r[i] = u[i]
  <2> SUFFICES ASSUME NEW i \in 1 .. c - a PROVE r[i] = a + i
    BY <1>3 DEF u
  <2>1. CASE i <= b - a
    <3>1. s[i] = a + i
      BY <1>1, <2>1 DEF s
    <3> QED BY <1>4, <1>5, <2>1, <3>1
  <2>2. CASE ~(i <= b - a)
    <3>1. t[i - (b - a)] = b + (i - (b - a))
      BY <1>2, <2>2 DEF t
    <3> QED BY <1>4, <1>5, <2>2, <3>1
  <2> QED BY <2>1, <2>2
<1>7. r = u
  BY <1>3, <1>4, <1>5, <1>6, SameSeq DEF u
<1> QED BY <1>7 DEF r, s, t, u

\* What is left when the first numbers of an interval are taken.
LEMMA NumbersTail ==
    ASSUME NEW a \in Nat, NEW b \in Nat, NEW c \in Nat, a <= b, b <= c
    PROVE  SubSeq(Numbers(a, c), b - a + 1, Len(Numbers(a, c))) = Numbers(b, c)
<1>1. /\ Numbers(b, c) \in Seq(Nat) /\ Len(Numbers(b, c)) = c - b
      /\ \A k \in 1 .. c - b : Numbers(b, c)[k] = b + k
  BY NumbersSeq
<1>2. /\ Numbers(a, c) \in Seq(Nat) /\ Len(Numbers(a, c)) = c - a
      /\ \A k \in 1 .. c - a : Numbers(a, c)[k] = a + k
  <2>1. a <= c
    OBVIOUS
  <2> QED BY <2>1, NumbersSeq
<1> DEFINE t == Numbers(b, c)
           u == Numbers(a, c)
           m == b - a + 1
           n == c - a
           r == SubSeq(u, m, n)
<1> HIDE DEF t, u
<1>3. /\ r \in Seq(Nat) /\ Len(r) = IF m <= n THEN n - m + 1 ELSE 0
      /\ \A i \in 1 .. n - m + 1 : r[i] = u[m + i - 1]
  <2>1. m \in Int /\ n \in Int /\ \A i \in m .. n : u[i] \in Nat
    BY <1>2 DEF u
  <2> HIDE DEF m, n
  <2> QED BY <2>1, SubSeqProperties
<1> HIDE DEF r
<1>4. Len(r) = c - b /\ c - b \in Nat
  BY <1>3
<1>5. \A i \in 1 .. c - b : r[i] = t[i]
  BY <1>1, <1>2, <1>3 DEF t, u
<1>6. r = t
  BY <1>1, <1>3, <1>4, <1>5, SameSeq DEF t
<1> QED BY <1>2, <1>6 DEF r, t, u

\* What Slice cuts out of a memory that holds the numbers from d + 1 on.
LEMMA SliceIs ==
    ASSUME NEW m \in Seq(Nat), NEW d \in Nat, NEW from \in Nat, NEW to \in Nat,
           from <= to, to <= Len(m), \A k \in 1 .. to : m[k] = d + k
    PROVE  Slice(m, from, to) = Numbers(d + from, d + to)
<1>1. Len(m) \in Nat /\ \A k \in 1 .. Len(m) : m[k] \in Nat
  BY LenProperties, ElementOfSeq
<1> DEFINE a == d + from
           b == d + to
           t == Numbers(a, b)
           r == SubSeq(m, from + 1, to)
<1>2. a \in Nat /\ b \in Nat /\ a <= b /\ b - a = to - from
  OBVIOUS
<1>3. t \in Seq(Nat) /\ Len(t) = b - a /\ \A k \in 1 .. b - a : t[k] = a + k
  <2> HIDE DEF a, b
  <2> QED BY <1>2, NumbersSeq
<1> HIDE DEF t
<1>4. /\ r \in Seq(Nat) /\ Len(r) = IF from + 1 <= to THEN to - (from + 1) + 1 ELSE 0
      /\ \A i \in 1 .. to - (from + 1) + 1 : r[i] = m[from + 1 + i - 1]
  <2>1. from + 1 \in Int /\ to \in Int /\ \A i \in from + 1 .. to : m[i] \in Nat
    BY <1>1
  <2> QED BY <2>1, SubSeqProperties
<1>5. Slice(m, from, to) = r
  <2>1. (IF to < Len(m) THEN to ELSE Len(m)) = to
    BY <1>1
  <2> QED BY <2>1 DEF Slice
<1> HIDE DEF r
<1>6. Len(r) = to - from /\ Len(t) = to - from /\ to - from \in Nat
  BY <1>2, <1>3, <1>4
<1>7. \A i \in 1 .. to - from : r[i] = t[i]
  BY <1>2, <1>3, <1>4
<1>8. r = t
  BY <1>3, <1>4, <1>6, <1>7, SameSeq
<1> QED BY <1>5, <1>8 DEF t

\* Induction down from hi.
LEMMA Downward ==
    ASSUME NEW lo \in Nat, NEW hi \in Nat, NEW S, hi \in S,
           \A i \in lo .. hi - 1 : i + 1 \in S => i \in S
    PROVE  \A i \in lo .. hi : i \in S
<1> DEFINE T == {n \in Nat : n <= hi - lo /\ hi - n \notin S}
<1>1. ASSUME T # {} PROVE FALSE
  <2> DEFINE Less == OpToRel(<, Nat)
  <2>1. \A x, y \in Nat : x < y => <<x, y>> \in Less
    BY Zenon DEF OpToRel
  <2>2. PICK n \in T : \A k \in T : ~(<<k, n>> \in Less)
    <3>1. T \subseteq Nat
      OBVIOUS
    <3> HIDE DEF T, Less
    <3> QED BY <1>1, <3>1, NatLessThanWellFounded, WFMin, Zenon DEF Less
  <2> HIDE DEF Less
  <2>3. \A k \in T : ~(k < n)
    BY <2>1, <2>2
  <2>4. n # 0 /\ n \in Nat /\ n <= hi - lo /\ hi - n \notin S
    BY <2>2
  <2>5. n - 1 \notin T
    BY <2>3, <2>4
  <2>6. hi - n + 1 \in S
    BY <2>4, <2>5
  <2> QED BY <2>4, <2>6
<1> QED
  <2> SUFFICES ASSUME NEW i \in lo .. hi PROVE i \in S
    OBVIOUS
  <2>1. hi - i \notin T
    BY <1>1
  <2> QED BY <2>1

\* The first segment and those behind it.
LEMMA PieceSeq ==
    ASSUME NEW L \in Lists, NEW a \in Nat, NEW b \in Nat, a <= b
    PROVE  /\ Piece(L, a, b) \in Seq(Pointers) /\ Len(Piece(L, a, b)) = b - a
           /\ \A k \in 1 .. b - a : Piece(L, a, b)[k] = L[a + k - 1]
<1>1. Piece(L, a, b) \in [1 .. b - a -> Pointers] /\ b - a \in Nat
  BY DEF Piece, Lists
<1> QED BY <1>1, IsSeq DEF Piece

\* No segments.
LEMMA PieceEmpty == ASSUME NEW L \in Lists, NEW a \in Nat PROVE Piece(L, a, a) = <<>>
<1>1. Piece(L, a, a) \in Seq(Pointers) /\ Len(Piece(L, a, a)) = 0
  BY PieceSeq
<1> QED BY <1>1, EmptySeq

Prefixed(e, s) == <<e>> \o s

\* The first segment of a piece, and the others.
LEMMA PieceJoin ==
    ASSUME NEW L \in Lists, NEW a \in Nat, NEW b \in Nat, a < b
    PROVE  Prefixed(L[a], Piece(L, a + 1, b)) = Piece(L, a, b)
<1>1. a + 1 \in Nat /\ a + 1 <= b /\ a <= b
  OBVIOUS
<1> DEFINE c == a + 1
           s == <<L[a]>>
           t == Piece(L, c, b)
           u == Piece(L, a, b)
           r == s \o t
<1>2. t \in Seq(Pointers) /\ Len(t) = b - c /\ \A k \in 1 .. b - c : t[k] = L[c + k - 1]
  <2> HIDE DEF c
  <2> QED BY <1>1, PieceSeq DEF c
<1>3. u \in Seq(Pointers) /\ Len(u) = b - a /\ \A k \in 1 .. b - a : u[k] = L[a + k - 1]
  BY <1>1, PieceSeq
<1>4. s \in Seq(Pointers) /\ Len(s) = 1 /\ s[1] = L[a]
  BY DEF Lists
<1> HIDE DEF s, t, u
<1>5. /\ r \in Seq(Pointers) /\ Len(r) = Len(s) + Len(t)
      /\ \A i \in 1 .. Len(s) + Len(t) : r[i] = IF i <= Len(s) THEN s[i] ELSE t[i - Len(s)]
  BY <1>2, <1>4, ConcatProperties
<1> HIDE DEF r
<1>6. \A i \in 1 .. b - a : r[i] = u[i]
  BY <1>2, <1>3, <1>4, <1>5
<1>7. Len(r) = b - a /\ b - a \in Nat
  BY <1>2, <1>4, <1>5
<1>8. r = u
  BY <1>3, <1>5, <1>6, <1>7, SameSeq
<1> QED BY <1>8 DEF r, s, t, u, Prefixed

-----------------------------------------------------------------------------
(* The list of segments.                                                   *)

SegmentsTyped(q) == q.segments \in [Segments -> SegmentType]

\* L[lo], ..., L[hi] are the segments of the list, and the others are as Reset
\* leaves them.
Linked(q, L, lo, hi) ==
    /\ \A i \in lo .. hi : L[i] \in Segments /\ q.segments[L[i]].next = IF i = hi THEN Null ELSE L[i + 1]
    /\ \A i, j \in lo .. hi : L[i] = L[j] => i = j
    /\ \A s \in Segments : (\A i \in lo .. hi : L[i] # s) => q.segments[s] = EmptySegment

\* The pointer to L[b], or behind the last segment.
Behind(L, b, hi) == IF b = hi + 1 THEN Null ELSE L[b]

\* The equation of Chain's recursive function.
ChainStep(q, until, f) ==
    [r \in Segments \cup {Null} |-> IF r \in {Null, until} THEN <<>> ELSE Prefixed(r, f[q.segments[r].next])]

\* Chain is a recursive function: it has one wherever the equation has a solution.
LEMMA ChainUnfolds ==
    ASSUME NEW q, NEW s, NEW until, NEW g, g = ChainStep(q, until, g)
    PROVE  \E f : f = ChainStep(q, until, f) /\ Chain(q, s, until) = f[s]
<1> DEFINE f == CHOOSE h : h = ChainStep(q, until, h)
<1>1. f = ChainStep(q, until, f)
  OBVIOUS
<1>2. Chain(q, s, until) = f[s]
  BY DEF Chain, ChainStep, Prefixed
<1> QED BY <1>1, <1>2

\* No segment has the null address.
LEMMA NullIsNone == Null \notin Segments /\ Segments \subseteq Nat
BY DEF Null, Segments

\* The segments of the list from L[a] up to but without L[b].
LEMMA ChainIs ==
    ASSUME NEW q, SegmentsTyped(q), NEW L \in Lists, NEW lo \in Nat, NEW hi \in Nat, Linked(q, L, lo, hi),
           NEW a \in lo .. hi, NEW b \in a .. hi + 1
    PROVE  Chain(q, L[a], Behind(L, b, hi)) = Piece(L, a, b)
<1> DEFINE until == Behind(L, b, hi)
           Place(r) == CHOOSE i \in lo .. hi : L[i] = r
           InList(r) == \E i \in lo .. hi : L[i] = r
           ToEnd(i) == Piece(L, i, IF i < b THEN b ELSE hi + 1)
           g == [r \in Segments \cup {Null} |->
                   IF r \in {Null, until} THEN <<>>
                   ELSE IF InList(r) THEN ToEnd(Place(r))
                   ELSE <<r>>]
<1>1. \A i \in lo .. hi : L[i] \in Segments /\ L[i] # Null /\ InList(L[i]) /\ Place(L[i]) = i
  <2> SUFFICES ASSUME NEW i \in lo .. hi
               PROVE  L[i] \in Segments /\ L[i] # Null /\ InList(L[i]) /\ Place(L[i]) = i
    OBVIOUS
  <2>1. Place(L[i]) \in lo .. hi /\ L[Place(L[i])] = L[i]
    OBVIOUS
  <2> QED BY <2>1, NullIsNone DEF Linked
<1>2. \A i \in lo .. hi : L[i] = until <=> i = b
  BY <1>1 DEF Linked, Behind
<1>3. \A i \in lo .. hi : q.segments[L[i]].next = Behind(L, i + 1, hi)
  BY DEF Linked, Behind
<1> HIDE DEF Place
<1>4. \A i \in lo .. hi : i # b => g[L[i]] = ToEnd(i)
  BY <1>1, <1>2
<1>5. g[Null] = <<>> /\ (until \in Segments \cup {Null} => g[until] = <<>>)
  OBVIOUS
<1>6. \A i \in lo .. hi + 1 : i = b \/ i = hi + 1 => g[Behind(L, i, hi)] = <<>>
  <2>1. \A i \in lo .. hi : Behind(L, i, hi) = L[i]
    BY DEF Behind
  <2> QED BY <1>1, <1>5, <2>1 DEF Behind
<1> HIDE DEF g
<1>7. ASSUME NEW r \in Segments \cup {Null}, r \notin {Null, until}
      PROVE  g[r] = Prefixed(r, g[q.segments[r].next])
  <2>1. CASE ~InList(r)
    <3>1. g[r] = <<r>>
      BY <1>7, <2>1 DEF g
    <3>2. q.segments[r].next = Null
      BY <1>7, <2>1 DEF Linked, EmptySegment
    <3>3. Prefixed(r, <<>>) = <<r>>
      BY DEF Prefixed
    <3> QED BY <1>5, <3>1, <3>2, <3>3
  <2>2. CASE InList(r)
    <3>1. PICK i \in lo .. hi : L[i] = r
      BY <2>2
    <3> DEFINE e == IF i < b THEN b ELSE hi + 1
    <3>2. i # b /\ i \in Nat /\ e \in Nat /\ i < e /\ g[r] = Piece(L, i, e)
      BY <1>2, <1>4, <1>7, <3>1
    <3>3. g[q.segments[r].next] = Piece(L, i + 1, e)
      <4>1. CASE i + 1 = b \/ i + 1 = hi + 1
        <5>1. g[q.segments[r].next] = <<>>
          BY <1>3, <1>6, <3>1, <4>1
        <5>2. i + 1 = e /\ Piece(L, i + 1, e) = <<>>
          <6>1. i + 1 = e /\ i + 1 \in Nat
            BY <3>2, <4>1
          <6> QED BY <3>2, <6>1, PieceEmpty
        <5> QED BY <5>1, <5>2
      <4>2. CASE i + 1 # b /\ i + 1 # hi + 1
        <5>1. i + 1 \in lo .. hi /\ q.segments[r].next = L[i + 1]
          BY <1>3, <3>1, <4>2 DEF Behind
        <5>2. e = IF i + 1 < b THEN b ELSE hi + 1
          BY <3>2, <4>2
        <5> QED BY <1>4, <4>2, <5>1, <5>2
      <4> QED BY <4>1, <4>2
    <3>4. Prefixed(r, Piece(L, i + 1, e)) = Piece(L, i, e)
      BY <3>1, <3>2, PieceJoin
    <3> QED BY <3>2, <3>3, <3>4
  <2> QED BY <2>1, <2>2
<1>8. g = ChainStep(q, until, g)
  <2>1. g = [r \in Segments \cup {Null} |-> g[r]]
    BY DEF g
  <2>2. \A r \in Segments \cup {Null} : g[r] = IF r \in {Null, until} THEN <<>> ELSE Prefixed(r, g[q.segments[r].next])
    BY <1>7 DEF g
  <2> QED BY <2>1, <2>2 DEF ChainStep
<1>9. PICK f : f = ChainStep(q, until, f) /\ Chain(q, L[a], until) = f[L[a]]
  BY <1>8, ChainUnfolds
<1>10. \A i \in lo .. hi : i # b => f[L[i]] = Prefixed(L[i], f[Behind(L, i + 1, hi)])
  <2> SUFFICES ASSUME NEW i \in lo .. hi, i # b PROVE f[L[i]] = Prefixed(L[i], f[Behind(L, i + 1, hi)])
    OBVIOUS
  <2>1. \A r \in Segments : r \notin {Null, until} => f[r] = Prefixed(r, f[q.segments[r].next])
    BY <1>9 DEF ChainStep
  <2>2. L[i] \in Segments /\ L[i] \notin {Null, until} /\ q.segments[L[i]].next = Behind(L, i + 1, hi)
    BY <1>1, <1>2, <1>3
  <2> HIDE DEF until
  <2>3. f[L[i]] = Prefixed(L[i], f[q.segments[L[i]].next])
    BY <2>1, <2>2
  <2> QED BY <2>2, <2>3
<1>11. f[until] = <<>>
  <2>1. until \in Segments \cup {Null}
    BY <1>1 DEF Behind
  <2> QED BY <1>9, <2>1 DEF ChainStep
<1>12. Piece(L, b, b) = <<>>
  <2>1. b \in Nat
    OBVIOUS
  <2> QED BY <2>1, PieceEmpty
<1>13. CASE a = b
  <2>1. until = L[a]
    BY <1>13 DEF Behind
  <2> QED BY <1>9, <1>11, <1>12, <1>13, <2>1
<1>14. CASE a # b
  <2> DEFINE S == {i \in lo .. b - 1 : f[L[i]] = Piece(L, i, b)}
             top == b - 1
  <2>1. top \in Nat /\ top \in lo .. hi /\ a <= top /\ b = top + 1 /\ Behind(L, top + 1, hi) = until
    BY <1>14
  <2>2. top \in S
    <3>1. f[L[top]] = Prefixed(L[top], <<>>)
      BY <1>10, <1>11, <2>1
    <3>2. Prefixed(L[top], Piece(L, top + 1, b)) = Piece(L, top, b)
      BY <2>1, PieceJoin
    <3> QED BY <1>12, <2>1, <3>1, <3>2
  <2>3. ASSUME NEW i \in lo .. top - 1, i + 1 \in S PROVE i \in S
    <3>1. Behind(L, i + 1, hi) = L[i + 1] /\ i \in Nat /\ i < b /\ i \in lo .. hi
      BY <2>1 DEF Behind
    <3>2. f[L[i]] = Prefixed(L[i], Piece(L, i + 1, b))
      <4>1. f[L[i]] = Prefixed(L[i], f[L[i + 1]])
        BY <1>10, <3>1
      <4>2. f[L[i + 1]] = Piece(L, i + 1, b)
        BY <2>3
      <4> QED BY <4>1, <4>2
    <3>3. Prefixed(L[i], Piece(L, i + 1, b)) = Piece(L, i, b)
      BY <3>1, PieceJoin
    <3> QED BY <2>1, <3>1, <3>2, <3>3
  <2>4. \A i \in lo .. top : i \in S
    <3> HIDE DEF S, top
    <3> QED BY <2>1, <2>2, <2>3, Downward
  <2>5. a \in lo .. top
    BY <2>1
  <2> QED BY <1>9, <2>4, <2>5
<1> QED BY <1>13, <1>14

\* Nothing follows the null pointer.
LEMMA ChainOfNull == ASSUME NEW q, NEW until PROVE SegmentsTyped(q) /\ (\A s \in Segments : q.segments[s] = EmptySegment) => Chain(q, Null, until) = <<>>
<1> SUFFICES ASSUME SegmentsTyped(q), \A s \in Segments : q.segments[s] = EmptySegment
             PROVE  Chain(q, Null, until) = <<>>
  OBVIOUS
<1> DEFINE g == [r \in Segments \cup {Null} |-> IF r \in {Null, until} THEN <<>> ELSE Prefixed(r, <<>>)]
<1>1. \A r \in Segments : q.segments[r].next = Null
  BY DEF EmptySegment
<1>2. g[Null] = <<>>
  OBVIOUS
<1>3. \A r \in Segments \cup {Null} : g[r] = IF r \in {Null, until} THEN <<>> ELSE Prefixed(r, g[q.segments[r].next])
  BY <1>1, <1>2
<1>4. g = [r \in Segments \cup {Null} |-> g[r]]
  OBVIOUS
<1> HIDE DEF g
<1>5. g = ChainStep(q, until, g)
  BY <1>3, <1>4 DEF ChainStep
<1>6. PICK f : f = ChainStep(q, until, f) /\ Chain(q, Null, until) = f[Null]
  BY <1>5, ChainUnfolds
<1> QED BY <1>6 DEF ChainStep

-----------------------------------------------------------------------------
(* The bytes of the list.                                                  *)

\* The bytes a segment holds: those committed to it, and in the writing head those
\* buffered.
Filled(q, s) == q.segments[s].end + IF s = q.writingHead THEN q.buffered ELSE 0

\* Running indexes: a segment starts where the one before it ends.
Indexed(q, L, lo, hi) ==
    \A i, j \in lo .. hi : i < j =>
        /\ q.segments[L[i]].running + q.segments[L[i]].end <= q.segments[L[j]].running
        /\ j = i + 1 => q.segments[L[i]].running + q.segments[L[i]].end = q.segments[L[j]].running

\* The number of a byte in the stream, when base bytes came before the list's first.
Number(q, base, s, index) == base + q.segments[s].running + index

\* What is in the list.
Filling(q, L, lo, hi, base) ==
    \A i \in lo .. hi :
        /\ Filled(q, L[i]) <= Len(q.segments[L[i]].memory)
        /\ \A k \in 1 .. Filled(q, L[i]) : q.segments[L[i]].memory[k] = Number(q, base, L[i], k)

\* The equation of the recursive function of Bytes.
Join(s, t) == s \o t
Low(begin, s) == IF s = begin.segment THEN begin.index ELSE 0
BytesStep(q, begin, end, f) ==
    [s \in Segments \cup {Null} |->
        IF s = Null THEN <<>>
        ELSE IF s = end.segment THEN Slice(q.segments[s].memory, Low(begin, s), end.index)
        ELSE Join(Slice(q.segments[s].memory, Low(begin, s), q.segments[s].end), f[q.segments[s].next])]

\* Bytes is a recursive function in the same way.
LEMMA BytesUnfold ==
    ASSUME NEW q, NEW begin, NEW end, NEW g, g = BytesStep(q, begin, end, g)
    PROVE  \E f : f = BytesStep(q, begin, end, f) /\ Bytes(q, begin, end) = f[begin.segment]
<1> DEFINE f == CHOOSE h : h = BytesStep(q, begin, end, h)
<1>1. f = BytesStep(q, begin, end, f)
  OBVIOUS
<1>2. Bytes(q, begin, end) = f[begin.segment]
  BY DEF Bytes, BytesStep, Low, Join
<1> QED BY <1>1, <1>2

\* Slices of the stream that meet are one.
LEMMA JoinNumbers ==
    ASSUME NEW a \in Nat, NEW b \in Nat, NEW c \in Nat, a <= b, b <= c
    PROVE  /\ Join(Numbers(a, b), Numbers(b, c)) = Numbers(a, c)
           /\ Join(Numbers(a, b), <<>>) = Numbers(a, b)
           /\ \A t \in Seq(Nat) : Join(Numbers(a, b), Join(Numbers(b, c), t)) = Join(Numbers(a, c), t)
<1>1. Numbers(a, b) \in Seq(Nat) /\ Numbers(b, c) \in Seq(Nat)
  BY NumbersSeq
<1>2. Numbers(a, b) \o Numbers(b, c) = Numbers(a, c)
  BY NumbersJoin
<1>3. Numbers(a, b) \o <<>> = Numbers(a, b)
  BY <1>1, ConcatEmptySeq
<1>4. ASSUME NEW t \in Seq(Nat)
      PROVE  Numbers(a, b) \o (Numbers(b, c) \o t) = (Numbers(a, b) \o Numbers(b, c)) \o t
  <2> DEFINE r == Numbers(a, b)
             s == Numbers(b, c)
  <2>1. r \in Seq(Nat) /\ s \in Seq(Nat)
    BY <1>1
  <2> HIDE DEF r, s
  <2>2. \A x, y, z \in Seq(Nat) : (x \o y) \o z = x \o (y \o z)
    BY ConcatAssociative, SMTT(30)
  <2>3. (r \o s) \o t = r \o (s \o t)
    BY <2>1, <2>2, Zenon
  <2> QED BY <2>3 DEF r, s
<1> QED BY <1>2, <1>3, <1>4 DEF Join

\* The hypotheses on a list that the lemmas on its bytes have in common.
Stored(q, L, lo, hi, base) ==
    /\ SegmentsTyped(q) /\ q.buffered \in Nat
    /\ L \in Lists /\ lo \in Nat /\ hi \in Nat /\ base \in Nat
    /\ Linked(q, L, lo, hi) /\ Indexed(q, L, lo, hi) /\ Filling(q, L, lo, hi, base)

\* What is known of the i-th segment of a list.
LEMMA StoredFacts ==
    ASSUME NEW q, NEW L, NEW lo, NEW hi, NEW base, Stored(q, L, lo, hi, base), NEW i \in lo .. hi
    PROVE  /\ i \in Nat /\ L[i] \in Segments /\ L[i] # Null
           /\ q.segments[L[i]].running \in Nat /\ q.segments[L[i]].end \in Nat
           /\ Filled(q, L[i]) \in Nat /\ q.segments[L[i]].end <= Filled(q, L[i])
           /\ q.segments[L[i]].memory \in Seq(Nat) /\ Len(q.segments[L[i]].memory) \in Nat
           /\ q.segments[L[i]].next = Behind(L, i + 1, hi)
           /\ \A j \in lo .. hi : L[i] = L[j] <=> i = j
<1>1. L[i] \in Segments /\ lo \in Nat /\ hi \in Nat /\ i \in Nat
  BY DEF Stored, Linked
<1>2. q.segments[L[i]] \in SegmentType
  BY <1>1 DEF Stored, SegmentsTyped
<1>3. q.segments[L[i]].end \in Nat /\ q.segments[L[i]].running \in Nat /\ q.segments[L[i]].memory \in Seq(Nat)
  BY <1>2 DEF SegmentType
<1>4. Filled(q, L[i]) \in Nat /\ q.segments[L[i]].end <= Filled(q, L[i])
  BY <1>3, SMTT(30) DEF Filled, Stored
<1>5. q.segments[L[i]].next = Behind(L, i + 1, hi)
  BY <1>1 DEF Stored, Linked, Behind
<1>6. Len(q.segments[L[i]].memory) \in Nat
  BY <1>3, LenProperties
<1>7. \A j \in lo .. hi : L[i] = L[j] <=> i = j
  BY DEF Stored, Linked
<1> QED BY <1>1, <1>3, <1>4, <1>5, <1>6, <1>7, NullIsNone

\* Cutting bytes out of a segment.
LEMMA SegmentSlice ==
    ASSUME NEW q, NEW L, NEW lo, NEW hi, NEW base, Stored(q, L, lo, hi, base), NEW i \in lo .. hi,
           NEW from \in Nat, NEW to \in Nat, from <= to, to <= Filled(q, L[i])
    PROVE  /\ Slice(q.segments[L[i]].memory, from, to) = Numbers(Number(q, base, L[i], from), Number(q, base, L[i], to))
           /\ Number(q, base, L[i], from) \in Nat /\ Number(q, base, L[i], to) \in Nat
           /\ Number(q, base, L[i], from) <= Number(q, base, L[i], to)
<1> DEFINE d == base + q.segments[L[i]].running
           m == q.segments[L[i]].memory
<1>1. /\ q.segments[L[i]].running \in Nat /\ base \in Nat /\ m \in Seq(Nat) /\ Len(m) \in Nat
      /\ Filled(q, L[i]) \in Nat /\ Filled(q, L[i]) <= Len(m)
  <2>1. base \in Nat /\ Filled(q, L[i]) <= Len(m)
    BY DEF Stored, Filling
  <2> QED BY <2>1, StoredFacts
<1>2. d \in Nat /\ to <= Len(m)
  <2>1. \A x, y, z \in Nat : x <= y /\ y <= z => x <= z
    OBVIOUS
  <2>2. to <= Len(m)
    BY <1>1, <2>1, Zenon
  <2>3. base \in Nat /\ q.segments[L[i]].running \in Nat
    BY <1>1
  <2>4. d \in Nat
    BY <2>3
  <2> QED BY <2>2, <2>4
<1>3. \A k \in 1 .. to : m[k] = d + k
  <2> SUFFICES ASSUME NEW k \in 1 .. to PROVE m[k] = d + k
    OBVIOUS
  <2>1. k \in 1 .. Filled(q, L[i])
    BY <1>1
  <2>2. m[k] = Number(q, base, L[i], k)
    BY <2>1 DEF Stored, Filling
  <2> QED BY <2>2 DEF Number
<1> HIDE DEF d, m
<1>4. Slice(m, from, to) = Numbers(d + from, d + to)
  BY <1>1, <1>2, <1>3, SliceIs
<1>5. d + from \in Nat /\ d + to \in Nat /\ d + from <= d + to
  BY <1>2
<1>6. Number(q, base, L[i], from) = d + from /\ Number(q, base, L[i], to) = d + to
  BY DEF Number, d
<1> QED BY <1>4, <1>5, <1>6 DEF m

\* Nothing of nothing.
LEMMA SliceOfNothing == Slice(<<>>, 0, 0) = <<>> /\ Join(<<>>, <<>>) = <<>>
<1>1. <<>> \in Seq(Nat) /\ Len(<<>>) = 0
  BY EmptySeq
<1>2. Slice(<<>>, 0, 0) = <<>>
  <2>1. SubSeq(<<>>, 1, 0) = <<>>
    BY SubSeqEmpty
  <2>2. 0 + 1 = 1 /\ (IF 0 < Len(<<>>) THEN 0 ELSE Len(<<>>)) = 0
    BY <1>1
  <2> QED BY <2>1, <2>2 DEF Slice
<1>3. <<>> \o <<>> = <<>>
  BY <1>1, ConcatEmptySeq
<1> QED BY <1>2, <1>3 DEF Join

\* The bytes from a position in L[b] to one in L[e], which is not before it.
LEMMA BytesAre ==
    ASSUME NEW q, NEW L, NEW lo, NEW hi, NEW base, Stored(q, L, lo, hi, base),
           NEW b \in lo .. hi, NEW e \in lo .. hi, b <= e, NEW x \in Nat, NEW y \in Nat,
           IF b = e THEN x <= y ELSE x <= q.segments[L[b]].end,
           y <= Filled(q, L[e])
    PROVE  /\ Bytes(q, Position(L[b], x), Position(L[e], y)) =
                  Numbers(Number(q, base, L[b], x), Number(q, base, L[e], y))
           /\ Number(q, base, L[b], x) \in Nat /\ Number(q, base, L[e], y) \in Nat
           /\ Number(q, base, L[b], x) <= Number(q, base, L[e], y)
<1> DEFINE begin == Position(L[b], x)
           end == Position(L[e], y)
           low(i) == IF i = b THEN x ELSE 0
           From(i) == Number(q, base, L[i], low(i))
           high(i) == IF i = e THEN y ELSE q.segments[L[i]].end
           Upto(i) == Number(q, base, L[i], high(i))
           LastFrom(i) == IF i <= e THEN Upto(e) ELSE Upto(hi)
           rest == Numbers(From(b), Upto(e))
           Value(i) == IF i < b THEN Join(Numbers(From(i), Number(q, base, L[b], 0)), rest)
                       ELSE Numbers(From(i), LastFrom(i))
           Place(r) == CHOOSE i \in lo .. hi : L[i] = r
           InList(r) == \E i \in lo .. hi : L[i] = r
           g == [r \in Segments \cup {Null} |->
                   IF r = Null THEN <<>> ELSE IF InList(r) THEN Value(Place(r)) ELSE <<>>]
<1>1. lo \in Nat /\ hi \in Nat /\ base \in Nat /\ b \in Nat /\ e \in Nat /\ b <= hi /\ e <= hi /\ lo <= b
  BY DEF Stored
\* Each segment's share.
<1>2. ASSUME NEW i \in lo .. hi
      PROVE  /\ low(i) \in Nat /\ high(i) \in Nat /\ low(i) <= high(i) /\ high(i) <= Filled(q, L[i])
             /\ Slice(q.segments[L[i]].memory, low(i), high(i)) = Numbers(From(i), Upto(i))
             /\ From(i) \in Nat /\ Upto(i) \in Nat /\ From(i) <= Upto(i)
  <2>1. /\ q.segments[L[i]].end \in Nat /\ Filled(q, L[i]) \in Nat /\ q.segments[L[i]].end <= Filled(q, L[i])
    BY StoredFacts
  <2>2. low(i) \in Nat /\ high(i) \in Nat /\ low(i) <= high(i) /\ high(i) <= Filled(q, L[i])
    BY <1>1, <2>1
  <2> HIDE DEF low, high
  <2> QED BY <2>2, SegmentSlice
<1>3. ASSUME NEW i \in lo .. hi, NEW j \in lo .. hi, i < j
      PROVE  /\ i # e => Upto(i) <= Number(q, base, L[j], 0)
             /\ i # e /\ j = i + 1 => Upto(i) = Number(q, base, L[j], 0)
             /\ Number(q, base, L[j], 0) \in Nat /\ Number(q, base, L[j], 0) <= From(j)
             /\ Number(q, base, L[i], 0) <= Number(q, base, L[j], 0)
             /\ j # b => From(j) = Number(q, base, L[j], 0)
  <2>1. /\ q.segments[L[i]].running \in Nat /\ q.segments[L[j]].running \in Nat /\ q.segments[L[i]].end \in Nat
    BY StoredFacts
  <2>2. /\ q.segments[L[i]].running + q.segments[L[i]].end <= q.segments[L[j]].running
        /\ j = i + 1 => q.segments[L[i]].running + q.segments[L[i]].end = q.segments[L[j]].running
    BY <1>3 DEF Stored, Indexed
  <2> QED BY <1>1, <2>1, <2>2 DEF Number
<1>4. \A i \in lo .. hi : L[i] \in Segments /\ L[i] # Null /\ InList(L[i]) /\ Place(L[i]) = i
  <2> SUFFICES ASSUME NEW i \in lo .. hi
               PROVE  L[i] \in Segments /\ L[i] # Null /\ InList(L[i]) /\ Place(L[i]) = i
    OBVIOUS
  <2>1. Place(L[i]) \in lo .. hi /\ L[Place(L[i])] = L[i]
    OBVIOUS
  <2>2. L[i] \in Segments /\ L[i] # Null /\ \A j \in lo .. hi : L[i] = L[j] <=> i = j
    BY StoredFacts
  <2> QED BY <2>1, <2>2
<1>5. begin.segment = L[b] /\ begin.index = x /\ end.segment = L[e] /\ end.index = y
  BY DEF Position
<1> HIDE DEF begin, end, Place
<1>6. \A i \in lo .. hi : /\ Low(begin, L[i]) = low(i)
                         /\ (L[i] = end.segment <=> i = e)
                         /\ q.segments[L[i]].next = Behind(L, i + 1, hi)
  <2> SUFFICES ASSUME NEW i \in lo .. hi
               PROVE  /\ Low(begin, L[i]) = low(i) /\ (L[i] = end.segment <=> i = e)
                      /\ q.segments[L[i]].next = Behind(L, i + 1, hi)
    OBVIOUS
  <2>1. /\ \A j \in lo .. hi : L[i] = L[j] <=> i = j
        /\ q.segments[L[i]].next = Behind(L, i + 1, hi)
    BY StoredFacts
  <2> QED BY <1>5, <2>1 DEF Low
<1>7. g[Null] = <<>> /\ \A i \in lo .. hi : g[L[i]] = Value(i)
  BY <1>4
<1> HIDE DEF low, high, From, Upto, g
<1>8. From(b) <= Upto(e)
  <2>1. CASE b = e
    BY <1>2, <2>1
  <2>2. CASE b # e
    <3>1. b < e
      BY <1>1, <2>2
    <3>2. From(b) <= Upto(b) /\ Upto(b) <= Number(q, base, L[e], 0) /\ Number(q, base, L[e], 0) <= From(e) /\ From(e) <= Upto(e)
      BY <1>2, <1>3, <2>2, <3>1
    <3>3. From(b) \in Nat /\ Upto(b) \in Nat /\ From(e) \in Nat /\ Upto(e) \in Nat /\ Number(q, base, L[e], 0) \in Nat
      BY <1>2, <1>3, <3>1
    <3> QED BY <3>2, <3>3
  <2> QED BY <2>1, <2>2
<1>9. rest \in Seq(Nat)
  BY <1>2, <1>8, NumbersSeq
\* The values solve the equation at each segment of the list.
<1>10. ASSUME NEW i \in lo .. hi, i # e
       PROVE  Value(i) = Join(Numbers(From(i), Upto(i)), g[Behind(L, i + 1, hi)])
  <2>0. From(i) \in Nat /\ Upto(i) \in Nat /\ From(i) <= Upto(i)
    BY <1>2
  <2>1. CASE i = hi
    <3>1. Behind(L, i + 1, hi) = Null /\ Value(i) = Numbers(From(i), Upto(i))
      BY <1>1, <1>10, <2>1 DEF Behind
    <3> QED BY <1>7, <2>0, <3>1, JoinNumbers
  <2>2. CASE i # hi
    <3> DEFINE j == i + 1
    <3>1. j \in lo .. hi /\ i < j /\ Behind(L, j, hi) = L[j] /\ i \in lo .. hi
      BY <1>1, <2>2 DEF Behind
    <3>2. g[Behind(L, j, hi)] = Value(j)
      BY <1>7, <3>1
    <3>3. Upto(i) = Number(q, base, L[j], 0) /\ From(j) \in Nat /\ Upto(j) \in Nat /\ From(j) <= Upto(j)
      BY <1>2, <1>3, <1>10, <3>1
    <3>4. CASE j < b
      <4>1. i < b /\ From(j) = Upto(i) /\ Upto(i) <= Number(q, base, L[b], 0) /\ Number(q, base, L[b], 0) \in Nat
        BY <1>1, <1>3, <1>10, <3>1, <3>3, <3>4
      <4>2. Join(Numbers(From(i), Upto(i)), Join(Numbers(Upto(i), Number(q, base, L[b], 0)), rest))
              = Join(Numbers(From(i), Number(q, base, L[b], 0)), rest)
        BY <1>9, <2>0, <4>1, JoinNumbers
      <4> QED BY <3>2, <3>4, <4>1, <4>2
    <3>5. CASE j = b
      <4>1. i < b /\ Upto(i) = Number(q, base, L[b], 0) /\ Value(j) = rest
        BY <1>1, <3>1, <3>3, <3>5
      <4> QED BY <3>2, <4>1
    <3>6. CASE b < j
      <4>1. ~(i < b) /\ ~(j < b) /\ From(j) = Upto(i) /\ LastFrom(i) = LastFrom(j)
        BY <1>1, <1>3, <1>10, <3>1, <3>3, <3>6
      <4>2. From(j) <= LastFrom(j) /\ LastFrom(j) \in Nat
        <5>1. \A k \in lo .. hi : k # j /\ j < k /\ j # e => Upto(j) <= Upto(k)
          <6> SUFFICES ASSUME NEW k \in lo .. hi, j < k, j # e PROVE Upto(j) <= Upto(k)
            OBVIOUS
          <6>1. /\ Upto(j) <= Number(q, base, L[k], 0) /\ Number(q, base, L[k], 0) <= From(k) /\ From(k) <= Upto(k)
                /\ Number(q, base, L[k], 0) \in Nat /\ From(k) \in Nat /\ Upto(k) \in Nat
            BY <1>2, <1>3, <3>1
          <6> QED BY <3>3, <6>1
        <5>2. Upto(e) \in Nat /\ Upto(hi) \in Nat
          BY <1>1, <1>2
        <5> QED BY <1>1, <3>1, <3>3, <5>1, <5>2
      <4>3. Join(Numbers(From(i), Upto(i)), Numbers(Upto(i), LastFrom(j))) = Numbers(From(i), LastFrom(j))
        BY <2>0, <3>3, <4>1, <4>2, JoinNumbers
      <4> QED BY <3>2, <4>1, <4>3
    <3> QED BY <1>1, <3>1, <3>4, <3>5, <3>6
  <2> QED BY <2>1, <2>2
<1> HIDE DEF rest
<1>11. ASSUME NEW r \in Segments
       PROVE  g[r] = IF r = end.segment THEN Slice(q.segments[r].memory, Low(begin, r), end.index)
                     ELSE Join(Slice(q.segments[r].memory, Low(begin, r), q.segments[r].end), g[q.segments[r].next])
  <2>1. CASE ~InList(r)
    <3>1. q.segments[r] = EmptySegment
      BY <2>1 DEF Stored, Linked
    <3>2. Low(begin, r) = 0 /\ r # end.segment /\ g[r] = <<>>
      BY <1>5, <2>1, NullIsNone DEF Low, g
    <3>3. Slice(<<>>, 0, 0) = <<>> /\ Join(<<>>, <<>>) = <<>>
      BY SliceOfNothing
    <3> QED BY <1>7, <3>1, <3>2, <3>3 DEF EmptySegment
  <2>2. CASE InList(r)
    <3>1. PICK i \in lo .. hi : L[i] = r
      BY <2>2
    <3>2. g[r] = Value(i) /\ Low(begin, r) = low(i) /\ (r = end.segment <=> i = e) /\ q.segments[r].next = Behind(L, i + 1, hi)
      BY <1>6, <1>7, <3>1
    <3>3. Slice(q.segments[r].memory, low(i), high(i)) = Numbers(From(i), Upto(i))
      BY <1>2, <3>1
    <3>4. CASE i = e
      <4>1. high(i) = y /\ Value(i) = Numbers(From(i), Upto(i))
        BY <1>1, <3>4 DEF high
      <4> QED BY <1>5, <3>2, <3>3, <3>4, <4>1
    <3>5. CASE i # e
      <4>1. high(i) = q.segments[r].end
        BY <3>1, <3>5 DEF high
      <4>2. Value(i) = Join(Numbers(From(i), Upto(i)), g[Behind(L, i + 1, hi)])
        BY <1>10, <3>5
      <4> HIDE DEF Value
      <4> QED BY <3>2, <3>3, <3>5, <4>1, <4>2
    <3> QED BY <3>4, <3>5
  <2> QED BY <2>1, <2>2
<1>12. g = BytesStep(q, begin, end, g)
  <2>1. g = [r \in Segments \cup {Null} |-> g[r]]
    BY DEF g
  <2>2. \A r \in Segments \cup {Null} : g[r] =
          IF r = Null THEN <<>>
          ELSE IF r = end.segment THEN Slice(q.segments[r].memory, Low(begin, r), end.index)
          ELSE Join(Slice(q.segments[r].memory, Low(begin, r), q.segments[r].end), g[q.segments[r].next])
    BY <1>7, <1>11, NullIsNone
  <2> QED BY <2>1, <2>2 DEF BytesStep
<1>13. PICK f : f = BytesStep(q, begin, end, f) /\ Bytes(q, begin, end) = f[begin.segment]
  BY <1>12, BytesUnfold
<1>14. ASSUME NEW i \in lo .. hi
       PROVE  f[L[i]] = IF i = e THEN Numbers(From(i), Upto(i))
                        ELSE Join(Numbers(From(i), Upto(i)), f[Behind(L, i + 1, hi)])
  <2>1. \A r \in Segments : r # Null => f[r] =
          IF r = end.segment THEN Slice(q.segments[r].memory, Low(begin, r), end.index)
          ELSE Join(Slice(q.segments[r].memory, Low(begin, r), q.segments[r].end), f[q.segments[r].next])
    BY <1>13 DEF BytesStep
  <2>2. /\ L[i] \in Segments /\ L[i] # Null /\ Low(begin, L[i]) = low(i) /\ (L[i] = end.segment <=> i = e)
        /\ q.segments[L[i]].next = Behind(L, i + 1, hi)
        /\ Slice(q.segments[L[i]].memory, low(i), high(i)) = Numbers(From(i), Upto(i))
    BY <1>2, <1>4, <1>6
  <2>3. high(i) = IF i = e THEN end.index ELSE q.segments[L[i]].end
    BY <1>5 DEF high
  <2>4. CASE i = e
    BY <2>1, <2>2, <2>3, <2>4
  <2>5. CASE i # e
    BY <2>1, <2>2, <2>3, <2>5
  <2> QED BY <2>4, <2>5
\* Back from the last segment.
<1>15. f[L[b]] = Numbers(From(b), Upto(e))
  <2> DEFINE S == {i \in b .. e : f[L[i]] = Numbers(From(i), Upto(e))}
  <2>1. e \in S
    BY <1>1, <1>14
  <2>2. ASSUME NEW i \in b .. e - 1, i + 1 \in S PROVE i \in S
    <3> DEFINE j == i + 1
    <3>1. i \in lo .. hi /\ j \in lo .. hi /\ i < j /\ i # e /\ j # b /\ Behind(L, j, hi) = L[j] /\ i \in b .. e
      BY <1>1 DEF Behind
    <3>2. f[L[i]] = Join(Numbers(From(i), Upto(i)), f[L[j]])
      BY <1>14, <3>1
    <3>3. f[L[j]] = Numbers(From(j), Upto(e))
      BY <2>2
    <3>4. Upto(i) = From(j) /\ From(i) \in Nat /\ Upto(i) \in Nat /\ From(i) <= Upto(i) /\ Upto(e) \in Nat
      BY <1>1, <1>2, <1>3, <3>1
    <3>5. From(j) <= Upto(e)
      <4>1. CASE j = e
        BY <1>2, <3>1, <4>1
      <4>2. CASE j # e
        <5>1. j < e
          BY <1>1, <4>2
        <5>2. /\ From(j) <= Upto(j) /\ Upto(j) <= Number(q, base, L[e], 0)
              /\ Number(q, base, L[e], 0) <= From(e) /\ From(e) <= Upto(e)
              /\ From(j) \in Nat /\ Upto(j) \in Nat /\ Number(q, base, L[e], 0) \in Nat /\ From(e) \in Nat
          BY <1>1, <1>2, <1>3, <3>1, <4>2, <5>1
        <5> QED BY <3>4, <5>2
      <4> QED BY <4>1, <4>2
    <3>6. Join(Numbers(From(i), Upto(i)), Numbers(Upto(i), Upto(e))) = Numbers(From(i), Upto(e))
      BY <3>4, <3>5, JoinNumbers
    <3> QED BY <3>1, <3>2, <3>3, <3>4, <3>6
  <2>3. \A i \in b .. e : i \in S
    <3> HIDE DEF S
    <3> QED BY <1>1, <2>1, <2>2, Downward
  <2>4. b \in b .. e
    BY <1>1
  <2> QED BY <2>3, <2>4
<1>16. From(b) = Number(q, base, L[b], x) /\ Upto(e) = Number(q, base, L[e], y)
  BY DEF From, Upto, low, high
<1>17. From(b) \in Nat /\ Upto(e) \in Nat
  BY <1>2
<1> QED BY <1>5, <1>8, <1>13, <1>15, <1>16, <1>17 DEF begin, end

-----------------------------------------------------------------------------
(* The pool of segments.                                                   *)

\* The pool without its last segment.
LEMMA PoolTake ==
    ASSUME NEW pool \in Seq(Segments), pool # <<>>, IsInjective(pool)
    PROVE  /\ Front(pool) \in Seq(Segments) /\ Len(Front(pool)) = Len(pool) - 1 /\ Last(pool) \in Segments
           /\ ToSet(Front(pool)) = ToSet(pool) \ {Last(pool)} /\ Last(pool) \in ToSet(pool)
           /\ IsInjective(Front(pool))
<1> DEFINE n == Len(pool)
           r == Front(pool)
<1>1. n \in Nat /\ n > 0 /\ DOMAIN pool = 1 .. n /\ \A i \in 1 .. n : pool[i] \in Segments
  BY EmptySeq, LenProperties, ElementOfSeq
<1>2. r \in Seq(Segments) /\ Len(r) = n - 1 /\ \A i \in 1 .. n - 1 : r[i] = pool[i]
  <2>1. \A i \in 1 .. n - 1 : pool[i] \in Segments
    BY <1>1
  <2>2. /\ SubSeq(pool, 1, n - 1) \in Seq(Segments)
        /\ Len(SubSeq(pool, 1, n - 1)) = IF 1 <= n - 1 THEN n - 1 - 1 + 1 ELSE 0
        /\ \A i \in 1 .. n - 1 - 1 + 1 : SubSeq(pool, 1, n - 1)[i] = pool[1 + i - 1]
    <3>1. n - 1 \in Int
      BY <1>1
    <3> QED BY <2>1, <3>1, SubSeqProperties
  <2> QED BY <1>1, <2>2 DEF Front
<1>3. DOMAIN r = 1 .. n - 1
  BY <1>2, LenProperties
<1> HIDE DEF r, n
<1>4. Last(pool) = pool[n]
  BY DEF Last, n
<1>5. \A i, j \in 1 .. n : pool[i] = pool[j] => i = j
  BY <1>1 DEF IsInjective
<1>6. ToSet(r) = ToSet(pool) \ {pool[n]}
  <2>1. ToSet(r) = {pool[i] : i \in 1 .. n - 1}
    BY <1>2, <1>3 DEF ToSet
  <2>2. ToSet(pool) = {pool[i] : i \in 1 .. n}
    BY <1>1 DEF ToSet
  <2>3. \A i \in 1 .. n : i \in 1 .. n - 1 \/ i = n
    BY <1>1
  <2>4. \A i \in 1 .. n - 1 : i \in 1 .. n /\ i # n /\ n \in 1 .. n
    BY <1>1
  <2> QED BY <1>5, <2>1, <2>2, <2>3, <2>4
<1>7. pool[n] \in ToSet(pool) /\ pool[n] \in Segments
  BY <1>1 DEF ToSet
<1>8. IsInjective(r)
  BY <1>1, <1>2, <1>3, <1>5 DEF IsInjective
<1> QED BY <1>2, <1>4, <1>6, <1>7, <1>8 DEF r, n

\* The pool with some segments of a list put into it.
LEMMA PoolPut ==
    ASSUME NEW pool \in Seq(Segments), IsInjective(pool), NEW list \in Seq(Segments), IsInjective(list),
           ToSet(pool) \cap ToSet(list) = {}, NEW k \in 0 .. Len(list)
    PROVE  /\ pool \o SubSeq(list, 1, k) \in Seq(Segments) /\ Len(pool \o SubSeq(list, 1, k)) = Len(pool) + k
           /\ IsInjective(pool \o SubSeq(list, 1, k))
           /\ ToSet(pool \o SubSeq(list, 1, k)) = ToSet(pool) \cup ToSet(SubSeq(list, 1, k))
           /\ ToSet(SubSeq(list, 1, k)) \subseteq ToSet(list)
<1> DEFINE n == Len(pool)
           m == Len(list)
           kept == SubSeq(list, 1, k)
           r == pool \o kept
<1>1. /\ n \in Nat /\ DOMAIN pool = 1 .. n /\ \A i \in 1 .. n : pool[i] \in Segments
      /\ m \in Nat /\ DOMAIN list = 1 .. m /\ \A i \in 1 .. m : list[i] \in Segments
  BY LenProperties, ElementOfSeq
<1>2. k \in Nat /\ k <= m
  BY <1>1
<1>3. kept \in Seq(Segments) /\ Len(kept) = k /\ \A i \in 1 .. k : kept[i] = list[i]
  <2>1. \A i \in 1 .. k : list[i] \in Segments
    BY <1>1
  <2>2. /\ kept \in Seq(Segments) /\ Len(kept) = IF 1 <= k THEN k - 1 + 1 ELSE 0
        /\ \A i \in 1 .. k - 1 + 1 : kept[i] = list[1 + i - 1]
    BY <1>2, <2>1, SubSeqProperties
  <2> QED BY <1>2, <2>2
<1>4. DOMAIN kept = 1 .. k
  BY <1>3, LenProperties
<1> HIDE DEF kept
<1>5. /\ r \in Seq(Segments) /\ Len(r) = n + k
      /\ \A i \in 1 .. n + k : r[i] = IF i <= n THEN pool[i] ELSE kept[i - n]
  BY <1>3, ConcatProperties
<1>6. DOMAIN r = 1 .. n + k
  BY <1>5, LenProperties
<1> HIDE DEF n, m, r
<1>7. /\ \A i \in 1 .. n : i \in 1 .. n + k /\ r[i] = pool[i]
      /\ \A i \in 1 .. k : i + n \in 1 .. n + k /\ r[i + n] = kept[i]
      /\ \A i \in 1 .. n + k : \/ i \in 1 .. n /\ r[i] = pool[i]
                               \/ i - n \in 1 .. k /\ r[i] = kept[i - n]
  BY <1>1, <1>2, <1>5
<1>8. ToSet(r) = ToSet(pool) \cup ToSet(kept)
  <2>1. ASSUME NEW x \in ToSet(r) PROVE x \in ToSet(pool) \cup ToSet(kept)
    BY <1>1, <1>4, <1>6, <1>7 DEF ToSet
  <2>2. ASSUME NEW x \in ToSet(pool) PROVE x \in ToSet(r)
    BY <1>1, <1>6, <1>7 DEF ToSet
  <2>3. ASSUME NEW x \in ToSet(kept) PROVE x \in ToSet(r)
    BY <1>4, <1>6, <1>7 DEF ToSet
  <2> QED BY <2>1, <2>2, <2>3
<1>9. ToSet(kept) \subseteq ToSet(list)
  BY <1>1, <1>2, <1>3, <1>4 DEF ToSet
<1>10. IsInjective(r)
  <2> SUFFICES ASSUME NEW i \in 1 .. n + k, NEW j \in 1 .. n + k, r[i] = r[j] PROVE i = j
    BY <1>6 DEF IsInjective
  <2>1. \A x \in 1 .. n, y \in 1 .. k : pool[x] # kept[y]
    BY <1>1, <1>4, <1>9 DEF ToSet
  <2>2. \A x, y \in 1 .. n : pool[x] = pool[y] => x = y
    BY <1>1 DEF IsInjective
  <2>3. \A x, y \in 1 .. k : kept[x] = kept[y] => x = y
    <3>1. \A x, y \in 1 .. m : list[x] = list[y] => x = y
      BY <1>1 DEF IsInjective
    <3>2. \A x \in 1 .. k : x \in 1 .. m /\ kept[x] = list[x]
      BY <1>1, <1>2, <1>3
    <3> QED BY <3>1, <3>2
  <2>4. CASE i \in 1 .. n /\ j \in 1 .. n
    <3>1. r[i] = pool[i] /\ r[j] = pool[j]
      BY <1>7, <2>4
    <3> QED BY <2>2, <2>4, <3>1
  <2>5. CASE i \notin 1 .. n /\ j \notin 1 .. n
    <3>1. i - n = j - n
      BY <1>7, <2>3, <2>5, SMTT(30)
    <3> QED BY <1>1, <1>2, <3>1
  <2>6. CASE (i \in 1 .. n) # (j \in 1 .. n)
    BY <1>7, <2>1, <2>6, SMTT(30)
  <2> QED BY <2>4, <2>5, <2>6
<1> QED BY <1>5, <1>8, <1>9, <1>10 DEF r, n, kept

\* The segment AllocateSegment takes is not in the list, and no longer in the pool.
PoolAfter(q) == IF q.pool = <<>> THEN q.pool ELSE Front(q.pool)

LEMMA NextSegmentIs ==
    ASSUME NEW q, q.pool \in Seq(Segments), IsInjective(q.pool), q.allocated \subseteq Segments,
           ToSet(q.pool) \subseteq q.allocated, ~(q.pool = <<>> /\ q.allocated = Segments)
    PROVE  /\ NextSegment(q) \in Segments /\ (NextSegment(q) \in ToSet(q.pool) \/ NextSegment(q) \notin q.allocated)
           /\ PoolAfter(q) \in Seq(Segments) /\ Len(PoolAfter(q)) <= Len(q.pool) /\ IsInjective(PoolAfter(q))
           /\ ToSet(PoolAfter(q)) = ToSet(q.pool) \ {NextSegment(q)}
<1>1. CASE q.pool # <<>>
  <2>1. NextSegment(q) = Last(q.pool) /\ PoolAfter(q) = Front(q.pool)
    BY <1>1 DEF NextSegment, PoolAfter
  <2>2. Len(q.pool) \in Nat
    BY LenProperties
  <2> QED BY <1>1, <2>1, <2>2, PoolTake
<1>2. CASE q.pool = <<>>
  <2>1. \E s \in Segments : s \notin q.allocated
    BY <1>2
  <2>2. NextSegment(q) \in Segments /\ NextSegment(q) \notin q.allocated
    BY <1>2, <2>1 DEF NextSegment
  <2>3. PoolAfter(q) = q.pool /\ Len(q.pool) \in Nat
    BY <1>2, LenProperties DEF PoolAfter
  <2> QED BY <2>2, <2>3
<1> QED BY <1>1, <1>2
=============================================================================
