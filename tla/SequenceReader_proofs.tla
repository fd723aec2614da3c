------------------------ MODULE SequenceReader_proofs ------------------------
(***************************************************************************)
(* SequenceReader reads the flat elements.                                 *)
(*                                                                         *)
(* A segment is a part of the whole list between two edges, so a position  *)
(* has a place in it, a buffer is the part from the reader's place to the  *)
(* next edge, and what the operations do with buffers is arithmetic on     *)
(* places.  The loops are recursive functions: each is shown to satisfy    *)
(* its equation, for every reader, and is then followed by induction on    *)
(* the elements left.                                                      *)
(***************************************************************************)
EXTENDS SequenceReader, SequenceTheorems, WellFoundedInduction, TLAPS

-----------------------------------------------------------------------------
(* Induction, and what recursive functions return.                         *)

\* Induction up to n, over a set of numbers.
LEMMA Upward ==
    ASSUME NEW n \in Nat, NEW S, 0 \in S, \A i \in 0 .. n - 1 : i \in S => i + 1 \in S
    PROVE  \A i \in 0 .. n : i \in S
<1> DEFINE T == {i \in Nat : i <= n /\ i \notin S}
<1>1. ASSUME T # {} PROVE FALSE
  <2> DEFINE Less == OpToRel(<, Nat)
  <2>1. \A x, y \in Nat : x < y => <<x, y>> \in Less
    BY Zenon DEF OpToRel
  <2>2. PICK m \in T : \A k \in T : ~(<<k, m>> \in Less)
    <3>1. T \subseteq Nat
      OBVIOUS
    <3> HIDE DEF T, Less
    <3> QED BY <1>1, <3>1, NatLessThanWellFounded, WFMin, Zenon DEF Less
  <2> HIDE DEF Less
  <2>3. \A k \in T : ~(k < m)
    BY <2>1, <2>2
  <2>4. m # 0 /\ m \in Nat /\ m <= n /\ m \notin S
    BY <2>2
  <2>5. m - 1 \in S
    BY <2>3, <2>4
  <2> QED BY <2>4, <2>5
<1> QED
  <2> SUFFICES ASSUME NEW i \in 0 .. n PROVE i \in S
    OBVIOUS
  <2>1. i \notin T
    BY <1>1
  <2> QED BY <2>1

\* Induction from all the numbers below.
LEMMA FromBelow ==
    ASSUME NEW n \in Nat, NEW S, \A k \in 0 .. n : (\A j \in 0 .. k - 1 : j \in S) => k \in S
    PROVE  n \in S
<1> DEFINE T == {c \in 0 .. n : \A j \in 0 .. c : j \in S}
<1>1. 0 \in T
  <2>1. \A j \in 0 .. 0 - 1 : j \in S
    OBVIOUS
  <2>2. 0 \in S
    BY <2>1
  <2>3. \A j \in 0 .. 0 : j = 0
    OBVIOUS
  <2> QED BY <2>2, <2>3
<1>2. ASSUME NEW c \in 0 .. n - 1, c \in T PROVE c + 1 \in T
  <2>1. PICK d \in Nat : d = c + 1 /\ d \in 0 .. n
    OBVIOUS
  <2>2. \A j \in 0 .. d - 1 : j \in S
    BY <1>2, <2>1
  <2>3. d \in S
    BY <2>1, <2>2
  <2>4. \A j \in 0 .. d : j = d \/ j \in 0 .. d - 1
    OBVIOUS
  <2>5. \A j \in 0 .. d : j \in S
    BY <2>2, <2>3, <2>4
  <2> QED BY <2>1, <2>5
<1> HIDE DEF T
<1>3. \A c \in 0 .. n - 1 : c \in T => c + 1 \in T
  BY <1>2
<1>4. \A c \in 0 .. n : c \in T
  BY <1>1, <1>3, Upward
<1>5. n \in T
  BY <1>4
<1> QED BY <1>5 DEF T

\* A set of numbers has a least one.
LEMMA LeastOf ==
    ASSUME NEW S, S \subseteq Nat, S # {}
    PROVE  Min(S) \in S /\ Min(S) \in Nat /\ \A k \in S : Min(S) <= k
<1> DEFINE Less == OpToRel(<, Nat)
<1>1. \A x, y \in Nat : x < y => <<x, y>> \in Less
  BY Zenon DEF OpToRel
<1>2. PICK m \in S : \A k \in S : ~(<<k, m>> \in Less)
  <2> HIDE DEF Less
  <2> QED BY NatLessThanWellFounded, WFMin, Zenon DEF Less
<1> HIDE DEF Less
<1>3. \A k \in S : m <= k
  <2> SUFFICES ASSUME NEW k \in S PROVE m <= k
    OBVIOUS
  <2>1. k \in Nat /\ m \in Nat
    OBVIOUS
  <2>2. ~(k < m)
    BY <1>1, <1>2, <2>1
  <2> QED BY <2>1, <2>2
<1>4. Min(S) \in S /\ \A k \in S : Min(S) <= k
  BY <1>3 DEF Min
<1> QED BY <1>4

Steps(n, T) == [1 .. n -> [T -> T]]

\* f begins with a, and step i gets from each of its values to the next.
Follows(n, T, a, step, f) ==
    f \in [1 .. n -> T] /\ \A i \in 1 .. n : f[i] = IF i = 1 THEN a ELSE step[i][f[i - 1]]

\* Such a function exists.
LEMMA PrefixDefined ==
    ASSUME NEW n \in Nat, NEW T, NEW a \in T, NEW step \in Steps(n, T)
    PROVE  \E f : Follows(n, T, a, step, f)
<1> USE DEF Steps, Follows
<1> DEFINE Good(k, f) == \A i \in 1 .. k : f[i] = IF i = 1 THEN a ELSE step[i][f[i - 1]]
           S == {k \in 0 .. n : \E f \in [1 .. k -> T] : Good(k, f)}
<1>1. 0 \in S
  <2> DEFINE z == [i \in 1 .. 0 |-> a]
  <2>1. z \in [1 .. 0 -> T]
    OBVIOUS
  <2>2. Good(0, z)
    OBVIOUS
  <2> HIDE DEF z, Good
  <2>3. \E f \in [1 .. 0 -> T] : Good(0, f)
    BY <2>1, <2>2
  <2>4. 0 \in 0 .. n
    OBVIOUS
  <2> QED BY <2>3, <2>4
<1>2. ASSUME NEW k \in 0 .. n - 1, k \in S PROVE k + 1 \in S
  <2>1. PICK f \in [1 .. k -> T] : Good(k, f)
    BY <1>2
  <2> DEFINE v == IF k = 0 THEN a ELSE step[k + 1][f[k]]
             g == [i \in 1 .. k + 1 |-> IF i = k + 1 THEN v ELSE f[i]]
  <2>2. v \in T
    OBVIOUS
  <2>3. g \in [1 .. k + 1 -> T]
    BY <2>2
  <2>4. \A i \in 1 .. k + 1 : i # k + 1 => i \in 1 .. k /\ g[i] = f[i]
    OBVIOUS
  <2>5. g[k + 1] = v
    OBVIOUS
  <2> HIDE DEF g
  <2>6. ASSUME NEW i \in 1 .. k + 1 PROVE g[i] = IF i = 1 THEN a ELSE step[i][g[i - 1]]
    <3>1. CASE i = k + 1
      <4>1. i # 1 => g[i - 1] = f[k]
        BY <2>4, <3>1
      <4> QED BY <2>5, <3>1, <4>1
    <3>2. CASE i # k + 1
      <4>1. i \in 1 .. k /\ g[i] = f[i] /\ (i # 1 => g[i - 1] = f[i - 1])
        BY <2>4, <3>2
      <4> QED BY <2>1, <4>1
    <3> QED BY <3>1, <3>2
  <2>7. Good(k + 1, g) /\ k + 1 \in 0 .. n
    BY <2>6
  <2> HIDE DEF Good
  <2> QED BY <2>3, <2>7
<1>3. n \in S
  <2>1. \A k \in 0 .. n - 1 : k \in S => k + 1 \in S
    BY <1>2
  <2> HIDE DEF S
  <2>2. \A k \in 0 .. n : k \in S
    BY <1>1, <2>1, Upward
  <2> QED BY <2>2
<1> QED BY <1>3

-----------------------------------------------------------------------------
(* Segments side by side.                                                  *)

Joined(s, t) == s \o t

\* The equation of FlattenSeq's recursive function.
FlattenStep(segs, f) ==
    [i \in 1 .. Len(segs) |-> IF i = 1 THEN segs[i] ELSE Joined(f[i - 1], segs[i])]

\* FlattenSeq appends one after the other.
LEMMA FlattenSolved ==
    ASSUME NEW T, NEW segs \in Seq(Seq(T)), Len(segs) > 0
    PROVE  \E f \in [1 .. Len(segs) -> Seq(T)] :
             /\ \A i \in 1 .. Len(segs) : f[i] = IF i = 1 THEN segs[1] ELSE Joined(f[i - 1], segs[i])
             /\ FlattenSeq(segs) = f[Len(segs)]
<1> DEFINE n == Len(segs)
           step == [i \in 1 .. n |-> [v \in Seq(T) |-> Joined(v, segs[i])]]
<1>1. n \in Nat /\ 1 \in 1 .. n /\ n \in 1 .. n /\ segs[1] \in Seq(T)
  OBVIOUS
<1>2. \A v, w \in Seq(T) : Joined(v, w) \in Seq(T)
  BY ConcatProperties DEF Joined
<1>3. step \in [1 .. n -> [Seq(T) -> Seq(T)]]
  <2>1. \A i \in 1 .. n : segs[i] \in Seq(T)
    OBVIOUS
  <2> QED BY <1>2, <2>1
<1>4. PICK g : Follows(n, Seq(T), segs[1], step, g)
  <2>1. step \in Steps(n, Seq(T))
    BY <1>3 DEF Steps
  <2> HIDE DEF n, step
  <2> QED BY <1>1, <2>1, PrefixDefined
<1>5. g = FlattenStep(segs, g)
  <2>1. \A i \in 1 .. n : g[i] = IF i = 1 THEN segs[i] ELSE Joined(g[i - 1], segs[i])
    <3>1. \A i \in 1 .. n : \A v \in Seq(T) : step[i][v] = Joined(v, segs[i])
      OBVIOUS
    <3> HIDE DEF step, n
    <3>2. \A i \in 1 .. n : i # 1 => i - 1 \in 1 .. n /\ g[i - 1] \in Seq(T)
      BY <1>1, <1>4 DEF Follows
    <3> QED BY <1>4, <3>1, <3>2 DEF Follows
  <2>2. g = [i \in 1 .. n |-> g[i]]
    BY <1>4 DEF Follows
  <2> QED BY <2>1, <2>2 DEF FlattenStep
<1> DEFINE h == CHOOSE f : f = FlattenStep(segs, f)
<1>6. h = FlattenStep(segs, h)
  BY <1>5
<1>7. FlattenSeq(segs) = h[n]
  BY DEF FlattenSeq, FlattenStep, Joined
<1> HIDE DEF h
<1>8. \A i \in 1 .. n : h[i] = IF i = 1 THEN segs[1] ELSE Joined(h[i - 1], segs[i])
  BY <1>6 DEF FlattenStep
<1>9. h = [i \in 1 .. n |-> h[i]]
  BY <1>6 DEF FlattenStep
<1>10. \A i \in 1 .. n : h[i] \in Seq(T)
  <2> DEFINE S == {k \in 0 .. n : k # 0 => h[k] \in Seq(T)}
  <2>1. 0 \in S
    BY <1>1
  <2>2. \A k \in 0 .. n - 1 : k \in S => k + 1 \in S
    <3> SUFFICES ASSUME NEW k \in 0 .. n - 1, k \in S PROVE h[k + 1] \in Seq(T)
      BY <1>1
    <3>1. k + 1 \in 1 .. n /\ segs[k + 1] \in Seq(T)
      OBVIOUS
    <3>2. CASE k = 0
      BY <1>1, <1>8, <3>1, <3>2
    <3>3. CASE k # 0
      <4>1. h[k + 1] = Joined(h[k], segs[k + 1]) /\ h[k] \in Seq(T)
        BY <1>8, <3>1, <3>3
      <4> QED BY <1>2, <3>1, <4>1
    <3> QED BY <3>2, <3>3
  <2> HIDE DEF S
  <2>3. \A k \in 0 .. n : k \in S
    BY <1>1, <2>1, <2>2, Upward
  <2> QED BY <2>3 DEF S
<1>11. h \in [1 .. n -> Seq(T)]
  BY <1>9, <1>10
<1> QED BY <1>7, <1>8, <1>11


\* The same for each element: f[k] is the first k of the n segments side by side.
Flattens(T, segs, n, f) ==
    /\ \A k \in 1 .. n : f[k] \in Seq(T) /\ Len(f[k]) \in Nat /\ segs[k] \in Seq(T) /\ Len(segs[k]) \in Nat
    /\ f[1] = segs[1]
    /\ \A k \in 1 .. n - 1 :
         /\ Len(f[k + 1]) = Len(f[k]) + Len(segs[k + 1])
         /\ \A i \in 1 .. Len(f[k]) : f[k + 1][i] = f[k][i]
         /\ \A i \in 1 .. Len(segs[k + 1]) : f[k + 1][Len(f[k]) + i] = segs[k + 1][i]
    /\ FlattenSeq(segs) = f[n]

\* u is s and t side by side, element by element.
SideBySide(u, s, t) ==
    /\ Len(u) = Len(s) + Len(t)
    /\ \A i \in 1 .. Len(s) : u[i] = s[i]
    /\ \A i \in 1 .. Len(t) : u[Len(s) + i] = t[i]

\* Joining lays two sequences side by side.
LEMMA JoinedElements ==
    ASSUME NEW T, NEW s \in Seq(T), NEW t \in Seq(T)
    PROVE  SideBySide(Joined(s, t), s, t)
<1> DEFINE u == s \o t
<1>1. /\ Len(u) = Len(s) + Len(t) /\ Len(s) \in Nat /\ Len(t) \in Nat
      /\ \A i \in 1 .. Len(s) + Len(t) : u[i] = IF i <= Len(s) THEN s[i] ELSE t[i - Len(s)]
  BY ConcatProperties
<1> HIDE DEF u
<1>2. \A i \in 1 .. Len(s) : u[i] = s[i]
  BY <1>1
<1>3. ASSUME NEW i \in 1 .. Len(t) PROVE u[Len(s) + i] = t[i]
  <2>1. Len(s) + i \in 1 .. Len(s) + Len(t) /\ ~(Len(s) + i <= Len(s)) /\ Len(s) + i - Len(s) = i
    BY <1>1
  <2> QED BY <1>1, <2>1
<1> QED BY <1>1, <1>2, <1>3 DEF u, Joined, SideBySide

\* FlattenSeq is the last of these.
LEMMA FlattenElements ==
    ASSUME NEW T, NEW segs \in Seq(Seq(T)), NEW n \in Nat \ {0}, Len(segs) = n
    PROVE  \E f : Flattens(T, segs, n, f)
<1>1. \A k \in 1 .. n : segs[k] \in Seq(T) /\ Len(segs[k]) \in Nat
  OBVIOUS
<1>2. PICK f \in [1 .. n -> Seq(T)] :
        /\ \A i \in 1 .. n : f[i] = IF i = 1 THEN segs[1] ELSE Joined(f[i - 1], segs[i])
        /\ FlattenSeq(segs) = f[n]
  <2>1. Len(segs) > 0
    OBVIOUS
  <2> QED BY <2>1, FlattenSolved
<1>3. \A k \in 1 .. n : f[k] \in Seq(T) /\ Len(f[k]) \in Nat
  BY <1>2
<1>4. f[1] = segs[1]
  BY <1>2
<1>5. ASSUME NEW k \in 1 .. n - 1
      PROVE  /\ Len(f[k + 1]) = Len(f[k]) + Len(segs[k + 1])
             /\ \A i \in 1 .. Len(f[k]) : f[k + 1][i] = f[k][i]
             /\ \A i \in 1 .. Len(segs[k + 1]) : f[k + 1][Len(f[k]) + i] = segs[k + 1][i]
  <2>1. k \in 1 .. n /\ k + 1 \in 1 .. n /\ k + 1 # 1 /\ k + 1 - 1 = k
    OBVIOUS
  <2>2. f[k + 1] = Joined(f[k], segs[k + 1])
    BY <1>2, <2>1
  <2>3. f[k] \in Seq(T) /\ segs[k + 1] \in Seq(T)
    BY <1>1, <1>3, <2>1
  <2>4. SideBySide(f[k + 1], f[k], segs[k + 1])
    BY <2>2, <2>3, JoinedElements
  <2> QED BY <2>4 DEF SideBySide
<1>6. Flattens(T, segs, n, f)
  BY <1>1, <1>2, <1>3, <1>4, <1>5 DEF Flattens
<1> QED BY <1>6

\* G is the n segments segs side by side, and the one with number k ends at R[k].
Laid(T, segs, n, R, G) ==
    /\ n \in Nat /\ segs \in Seq(Seq(T)) /\ Len(segs) = n
    /\ G \in Seq(T) /\ Len(G) \in Nat
    /\ R \in [0 .. n -> Nat] /\ R[0] = 0 /\ R[n] = Len(G)
    /\ \A k \in 1 .. n :
         /\ segs[k] \in Seq(T) /\ Len(segs[k]) \in Nat /\ R[k - 1] \in Nat /\ R[k] \in Nat
         /\ R[k] = R[k - 1] + Len(segs[k])
         /\ \A i \in 1 .. Len(segs[k]) : G[R[k - 1] + i] = segs[k][i]

\* The borders are in order.
LEMMA LaidOrder ==
    ASSUME NEW T, NEW segs, NEW n, NEW R, NEW G, Laid(T, segs, n, R, G), NEW j \in 0 .. n, NEW k \in j .. n
    PROVE  R[j] <= R[k]
<1> DEFINE S == {i \in 0 .. n - j : R[j] <= R[j + i]}
<1>1. n \in Nat /\ n - j \in Nat /\ j \in Nat /\ j + (n - j) = n /\ R[j] \in Nat
  BY DEF Laid
<1>2. 0 \in S
  BY <1>1
<1>3. ASSUME NEW i \in 0 .. n - j - 1, i \in S PROVE i + 1 \in S
  <2>1. j + i + 1 \in 1 .. n /\ j + i + 1 - 1 = j + i /\ i + 1 \in 0 .. n - j /\ j + (i + 1) = j + i + 1
    BY <1>1
  <2>2. /\ R[j + i + 1] = R[j + i] + Len(segs[j + i + 1]) /\ Len(segs[j + i + 1]) \in Nat
        /\ R[j + i] \in Nat
    BY <2>1 DEF Laid
  <2>3. R[j] <= R[j + i]
    BY <1>3
  <2>4. R[j] <= R[j + i + 1]
    BY <1>1, <2>2, <2>3
  <2> QED BY <2>1, <2>4
<1> HIDE DEF S
<1>4. \A i \in 0 .. n - j : i \in S
  BY <1>1, <1>2, <1>3, Upward
<1>5. k - j \in 0 .. n - j /\ j + (k - j) = k
  BY <1>1
<1> QED BY <1>4, <1>5 DEF S

\* What FlattenSeq returns.
LEMMA LaidFlat ==
    ASSUME NEW T, NEW segs, NEW n, NEW R, NEW G, Laid(T, segs, n, R, G)
    PROVE  FlattenSeq(segs) = G
<1>1. n \in Nat /\ segs \in Seq(Seq(T)) /\ Len(segs) = n /\ G \in Seq(T) /\ R[n] = Len(G) /\ R[0] = 0
  BY DEF Laid
<1>2. CASE n = 0
  <2>1. G = <<>> /\ segs = <<>>
    BY <1>1, <1>2, EmptySeq
  <2> QED BY <2>1 DEF FlattenSeq
<1>3. CASE n # 0
  <2>1. PICK f : Flattens(T, segs, n, f)
    BY <1>1, <1>3, FlattenElements
  <2> DEFINE Same(k) == Len(f[k]) = R[k] /\ \A i \in 1 .. R[k] : f[k][i] = G[i]
             S == {k \in 0 .. n : k # 0 => Same(k)}
  <2>2. 0 \in S
    BY <1>1
  <2>3. ASSUME NEW k \in 0 .. n - 1, k \in S PROVE k + 1 \in S
    <3>1. k + 1 \in 1 .. n /\ k + 1 - 1 = k /\ k + 1 \in 0 .. n /\ k \in Nat
      BY <1>1
    <3> DEFINE j == k + 1
    <3>0. /\ R[j - 1] \in Nat /\ Len(segs[j]) \in Nat /\ R[j] = R[j - 1] + Len(segs[j])
          /\ \A i \in 1 .. Len(segs[j]) : G[R[j - 1] + i] = segs[j][i]
      <4>1. j \in 1 .. n
        BY <3>1
      <4> HIDE DEF j
      <4> QED BY <4>1 DEF Laid
    <3>2. /\ R[k] \in Nat /\ Len(segs[k + 1]) \in Nat /\ R[k + 1] = R[k] + Len(segs[k + 1])
          /\ \A i \in 1 .. Len(segs[k + 1]) : G[R[k] + i] = segs[k + 1][i]
      <4>1. j - 1 = k
        BY <3>1
      <4> QED BY <3>0, <4>1
    <3>3. CASE k = 0
      <4>1. f[1] = segs[1]
        BY <2>1 DEF Flattens
      <4>2. Same(1)
        BY <1>1, <3>2, <3>3, <4>1
      <4> QED BY <3>1, <3>3, <4>2
    <3>4. CASE k # 0
      <4>1. Same(k) /\ k \in 1 .. n - 1
        BY <2>3, <3>1, <3>4
      <4>2. /\ Len(f[k + 1]) = Len(f[k]) + Len(segs[k + 1])
            /\ \A i \in 1 .. Len(f[k]) : f[k + 1][i] = f[k][i]
            /\ \A i \in 1 .. Len(segs[k + 1]) : f[k + 1][Len(f[k]) + i] = segs[k + 1][i]
        BY <2>1, <4>1 DEF Flattens
      <4>3. ASSUME NEW i \in 1 .. R[k + 1] PROVE f[k + 1][i] = G[i]
        <5>1. CASE i <= R[k]
          BY <3>2, <4>1, <4>2, <5>1
        <5>2. CASE ~(i <= R[k])
          <6>1. i - R[k] \in 1 .. Len(segs[k + 1]) /\ R[k] + (i - R[k]) = i
            BY <3>2, <5>2
          <6>2. G[i] = segs[k + 1][i - R[k]]
            BY <3>2, <6>1
          <6>3. f[k + 1][i] = segs[k + 1][i - R[k]]
            BY <4>1, <4>2, <6>1
          <6> QED BY <6>2, <6>3
        <5> QED BY <3>2, <5>1, <5>2
      <4>4. Same(k + 1)
        BY <3>2, <4>1, <4>2, <4>3
      <4> QED BY <3>1, <4>4
    <3> QED BY <3>3, <3>4
  <2> HIDE DEF S
  <2>4. \A k \in 0 .. n : k \in S
    BY <1>1, <2>2, <2>3, Upward
  <2>5. Same(n) /\ f[n] \in Seq(T) /\ FlattenSeq(segs) = f[n]
    <3>1. n \in S /\ n \in 1 .. n
      BY <1>1, <1>3, <2>4
    <3> QED BY <1>3, <2>1, <3>1 DEF S, Flattens
  <2>6. f[n] = G
    BY <1>1, <2>5, SeqEqual
  <2> QED BY <2>5, <2>6
<1> QED BY <1>2, <1>3

\* There are such borders and such a sequence.
LEMMA LaidExists ==
    ASSUME NEW T, NEW segs \in Seq(Seq(T)), NEW n \in Nat, Len(segs) = n
    PROVE  \E R, G : Laid(T, segs, n, R, G)
<1>1. CASE n = 0
  <2> DEFINE R == [i \in 0 .. n |-> 0]
             G == <<>>
  <2>1. R \in [0 .. n -> Nat] /\ R[0] = 0 /\ R[n] = 0 /\ G \in Seq(T) /\ Len(G) = 0
    OBVIOUS
  <2>2. ASSUME NEW k \in 1 .. n PROVE FALSE
    BY <1>1
  <2> HIDE DEF R, G
  <2>3. Len(G) \in Nat /\ R[n] = Len(G)
    BY <2>1
  <2>4. \A k \in 1 .. n :
          /\ segs[k] \in Seq(T) /\ Len(segs[k]) \in Nat /\ R[k - 1] \in Nat /\ R[k] \in Nat
          /\ R[k] = R[k - 1] + Len(segs[k])
          /\ \A i \in 1 .. Len(segs[k]) : G[R[k - 1] + i] = segs[k][i]
    BY <2>2
  <2>5. Laid(T, segs, n, R, G)
    BY <2>1, <2>3, <2>4, Zenon DEF Laid
  <2> QED BY <2>5
<1>2. CASE n # 0
  <2>1. PICK f : Flattens(T, segs, n, f)
    BY <1>2, FlattenElements
  <2>2. \A k \in 1 .. n : f[k] \in Seq(T) /\ Len(f[k]) \in Nat /\ segs[k] \in Seq(T) /\ Len(segs[k]) \in Nat
    BY <2>1 DEF Flattens
  <2> DEFINE R == [k \in 0 .. n |-> IF k = 0 THEN 0 ELSE Len(f[k])]
             G == f[n]
             S == {j \in 0 .. n - 1 : \A i \in 1 .. Len(f[n - j]) : f[n][i] = f[n - j][i]}
  <2>3. R \in [0 .. n -> Nat] /\ R[0] = 0 /\ R[n] = Len(G) /\ \A k \in 1 .. n : R[k] = Len(f[k])
    BY <1>2, <2>2
  <2> HIDE DEF R
  <2>4. ASSUME NEW k \in 1 .. n
        PROVE  /\ R[k] = R[k - 1] + Len(segs[k]) /\ R[k - 1] \in Nat
               /\ \A i \in 1 .. Len(segs[k]) : f[k][R[k - 1] + i] = segs[k][i]
    <3>1. CASE k = 1
      <4>1. f[1] = segs[1]
        BY <2>1 DEF Flattens
      <4> QED BY <2>2, <2>3, <3>1, <4>1
    <3>2. CASE k # 1
      <4>1. k - 1 \in 1 .. n - 1 /\ k - 1 + 1 = k /\ k - 1 \in 1 .. n
        BY <3>2
      <4>2. /\ Len(f[k - 1 + 1]) = Len(f[k - 1]) + Len(segs[k - 1 + 1])
            /\ \A i \in 1 .. Len(segs[k - 1 + 1]) : f[k - 1 + 1][Len(f[k - 1]) + i] = segs[k - 1 + 1][i]
        BY <2>1, <4>1 DEF Flattens
      <4> QED BY <2>2, <2>3, <4>1, <4>2
    <3> QED BY <3>1, <3>2
  <2>5. 0 \in S
    BY <1>2
  <2>6. ASSUME NEW j \in 0 .. n - 1 - 1, j \in S PROVE j + 1 \in S
    <3>1. PICK k \in 1 .. n - 1 : k \in 1 .. n /\ n - j = k + 1 /\ n - (j + 1) = k /\ j + 1 \in 0 .. n - 1 /\ k + 1 \in 1 .. n
      OBVIOUS
    <3> HIDE DEF S, G
    <3>2. Len(f[k + 1]) = Len(f[k]) + Len(segs[k + 1]) /\ \A i \in 1 .. Len(f[k]) : f[k + 1][i] = f[k][i]
      BY <2>1, <3>1 DEF Flattens
    <3>3. \A i \in 1 .. Len(f[k + 1]) : f[n][i] = f[k + 1][i]
      BY <2>6, <3>1 DEF S
    <3>4. Len(f[k]) \in Nat /\ Len(segs[k + 1]) \in Nat /\ Len(f[k + 1]) \in Nat
      BY <2>2, <3>1
    <3>5. Len(f[k]) <= Len(f[k + 1])
      <4> HIDE DEF S
      <4>1. ASSUME NEW a \in Nat, NEW b \in Nat, NEW c \in Nat, c = a + b PROVE a <= c
        BY <4>1
      <4> QED BY <3>2, <3>4, <4>1
    <3>6. ASSUME NEW i \in 1 .. Len(f[k]) PROVE f[n][i] = f[k][i]
      <4>1. i \in 1 .. Len(f[k + 1])
        BY <3>4, <3>5
      <4> QED BY <3>2, <3>3, <3>5, <4>1
    <3> QED BY <3>1, <3>5, <3>6 DEF S
  <2>7. ASSUME NEW k \in 1 .. n PROVE \A i \in 1 .. Len(f[k]) : f[n][i] = f[k][i]
    <3> HIDE DEF S
    <3>1. n - 1 \in Nat /\ n - k \in 0 .. n - 1 /\ n - (n - k) = k
      BY <1>2
    <3>2. \A j \in 0 .. n - 1 : j \in S
      BY <2>5, <2>6, <3>1, Upward
    <3>3. n - k \in S
      BY <3>1, <3>2
    <3>4. \A i \in 1 .. Len(f[n - (n - k)]) : f[n][i] = f[n - (n - k)][i]
      BY <3>3 DEF S
    <3> QED BY <3>1, <3>4
  <2>8. ASSUME NEW k \in 1 .. n PROVE \A i \in 1 .. Len(segs[k]) : G[R[k - 1] + i] = segs[k][i]
    <3> SUFFICES ASSUME NEW i \in 1 .. Len(segs[k]) PROVE f[n][R[k - 1] + i] = segs[k][i]
      OBVIOUS
    <3>0. /\ R[k] = R[k - 1] + Len(segs[k]) /\ R[k - 1] \in Nat /\ R[k] = Len(f[k])
          /\ f[k][R[k - 1] + i] = segs[k][i] /\ Len(segs[k]) \in Nat
      BY <2>2, <2>3, <2>4
    <3>1. R[k - 1] + i \in 1 .. Len(f[k]) /\ f[k][R[k - 1] + i] = segs[k][i]
      BY <3>0
    <3> QED BY <2>7, <3>1
  <2>9. G \in Seq(T) /\ Len(G) \in Nat
    BY <1>2, <2>2
  <2> HIDE DEF G
  <2>10. \A k \in 1 .. n : R[k] \in Nat
    BY <2>2, <2>3
  <2>11. Laid(T, segs, n, R, G)
    BY <2>2, <2>3, <2>4, <2>8, <2>9, <2>10 DEF Laid
  <2> QED BY <2>11
<1> QED BY <1>1, <1>2

\* The first segments.
LEMMA LaidPart ==
    ASSUME NEW T, NEW segs, NEW n, NEW R, NEW G, Laid(T, segs, n, R, G), NEW k \in 0 .. n
    PROVE  FlattenSeq(SubSeq(segs, 1, k)) = SubSeq(G, 1, R[k]) /\ Len(FlattenSeq(SubSeq(segs, 1, k))) = R[k]
<1> DEFINE part == SubSeq(segs, 1, k)
           Q == [j \in 0 .. k |-> R[j]]
           H == SubSeq(G, 1, R[k])
<1>1. n \in Nat /\ k \in Nat /\ R[k] \in Nat /\ Len(G) \in Nat /\ R[k] <= Len(G) /\ R[0] = 0
  <2>1. n \in Nat
    BY DEF Laid
  <2>2. n \in 0 .. n /\ n \in k .. n
    BY <2>1
  <2>3. R[k] <= R[n]
    BY <2>2, LaidOrder
  <2> QED BY <2>3 DEF Laid
<1>2. part \in Seq(Seq(T)) /\ Len(part) = k /\ \A i \in 1 .. k : part[i] = segs[i] /\ segs[i] \in Seq(T)
  <2>1. \A i \in 1 .. k : segs[i] \in Seq(T)
    BY <1>1 DEF Laid
  <2> QED BY <1>1, <2>1, SubSeqProperties
<1>3. H \in Seq(T) /\ Len(H) = R[k] /\ \A i \in 1 .. R[k] : H[i] = G[i]
  <2>1. \A i \in 1 .. R[k] : G[i] \in T
    <3>1. G \in Seq(T)
      BY DEF Laid
    <3> QED BY <1>1, <3>1
  <2> QED BY <1>1, <2>1, SubSeqProperties
<1>4. Q \in [0 .. k -> Nat] /\ \A j \in 0 .. k : Q[j] = R[j] /\ R[j] \in Nat
  <2>1. \A j \in 0 .. k : R[j] \in Nat
    BY <1>1 DEF Laid
  <2> QED BY <2>1
<1> HIDE DEF part, Q, H
<1>5. ASSUME NEW j \in 1 .. k
      PROVE  /\ Len(segs[j]) \in Nat /\ Q[j - 1] \in Nat /\ Q[j] \in Nat /\ Q[j] = Q[j - 1] + Len(part[j])
             /\ \A i \in 1 .. Len(part[j]) : H[Q[j - 1] + i] = part[j][i]
  <2>1. j \in 1 .. n /\ j - 1 \in 0 .. k /\ j \in 0 .. k /\ j \in 0 .. n /\ k \in j .. n
    BY <1>1
  <2>2. /\ R[j] = R[j - 1] + Len(segs[j]) /\ \A i \in 1 .. Len(segs[j]) : G[R[j - 1] + i] = segs[j][i]
        /\ Len(segs[j]) \in Nat
    BY <2>1 DEF Laid
  <2>3. R[j] <= R[k]
    BY <2>1, LaidOrder
  <2>4. \A i \in 1 .. Len(segs[j]) : R[j - 1] + i \in 1 .. R[k]
    BY <1>1, <1>4, <2>1, <2>2, <2>3
  <2> QED BY <1>2, <1>3, <1>4, <2>1, <2>2, <2>4
<1>6. Laid(T, part, k, Q, H)
  <2>1. Q[0] = 0 /\ Q[k] = R[k]
    BY <1>1, <1>4
  <2> QED BY <1>1, <1>2, <1>3, <1>4, <1>5, <2>1 DEF Laid
<1>7. FlattenSeq(part) = H
  BY <1>6, LaidFlat
<1> QED BY <1>3, <1>7 DEF part, H

-----------------------------------------------------------------------------
(* The borders of the segments in the list's elements.                     *)

All(segs) == FlattenSeq(segs)

\* How many elements the first k segments have.
Border(segs, k) == Len(FlattenSeq(SubSeq(segs, 1, k)))

Ruler(segs) ==
    LET n == Len(segs)
    IN  /\ n \in Nat /\ All(segs) \in Seq(Elems) /\ Len(All(segs)) \in Nat
        /\ Border(segs, 0) = 0 /\ Border(segs, n) = Len(All(segs))
        /\ \A k \in 0 .. n : Border(segs, k) \in Nat
        /\ \A k \in 1 .. n :
             /\ segs[k] \in Seq(Elems) /\ Len(segs[k]) \in Nat
             /\ Border(segs, k) = Border(segs, k - 1) + Len(segs[k])
             /\ \A i \in 1 .. Len(segs[k]) : All(segs)[Border(segs, k - 1) + i] = segs[k][i]
        /\ \A j, k \in 0 .. n : j <= k => Border(segs, j) <= Border(segs, k)

\* The edges of the segments divide the whole list, and each segment lies between two.
LEMMA RulerHolds ==
    ASSUME NEW segs \in Seq(Seq(Elems))
    PROVE  Ruler(segs)
<1> DEFINE n == Len(segs)
<1>1. n \in Nat
  OBVIOUS
<1>2. PICK R, G : Laid(Elems, segs, n, R, G)
  <2> HIDE DEF n
  <2> QED BY <1>1, LaidExists DEF n
<1>3. All(segs) = G
  BY <1>2, LaidFlat DEF All
<1>4. \A k \in 0 .. n : Border(segs, k) = R[k]
  <2> SUFFICES ASSUME NEW k \in 0 .. n PROVE Border(segs, k) = R[k]
    OBVIOUS
  <2> HIDE DEF n
  <2> QED BY <1>2, LaidPart DEF Border
<1>5. \A j, k \in 0 .. n : j <= k => R[j] <= R[k]
  <2> SUFFICES ASSUME NEW j \in 0 .. n, NEW k \in 0 .. n, j <= k PROVE R[j] <= R[k]
    OBVIOUS
  <2>1. k \in j .. n
    OBVIOUS
  <2> HIDE DEF n
  <2> QED BY <1>2, <2>1, LaidOrder
<1>6. /\ G \in Seq(Elems) /\ Len(G) \in Nat /\ R[0] = 0 /\ R[n] = Len(G) /\ \A k \in 0 .. n : R[k] \in Nat
      /\ \A k \in 1 .. n :
           /\ segs[k] \in Seq(Elems) /\ Len(segs[k]) \in Nat /\ R[k] = R[k - 1] + Len(segs[k])
           /\ \A i \in 1 .. Len(segs[k]) : G[R[k - 1] + i] = segs[k][i]
  <2> HIDE DEF n
  <2> QED BY <1>2 DEF Laid
<1>7. 0 \in 0 .. n /\ n \in 0 .. n /\ \A k \in 1 .. n : k \in 0 .. n /\ k - 1 \in 0 .. n
  BY <1>1
<1>8. \A k \in 0 .. n : Border(segs, k) \in Nat
  BY <1>4, <1>6
<1>9. \A k \in 1 .. n : Border(segs, k) = R[k] /\ Border(segs, k - 1) = R[k - 1]
  BY <1>4, <1>7
<1>10. \A j, k \in 0 .. n : j <= k => Border(segs, j) <= Border(segs, k)
  BY <1>4, <1>5
<1> HIDE DEF n
<1>11. Ruler(segs)
  BY <1>1, <1>3, <1>4, <1>6, <1>7, <1>8, <1>9, <1>10 DEF Ruler, n
<1> QED BY <1>11

\* The equation of RunningIndex's recursive function.
IndexStep(s, k, f) == [j \in 1 .. k |-> IF j = 1 THEN 0 ELSE f[j - 1] + Len(s.segments[j - 1])]

\* The running index is the border before the segment.
LEMMA RunningIndexIs ==
    ASSUME NEW s, s.segments \in Seq(Seq(Elems)), NEW k \in 1 .. Len(s.segments)
    PROVE  RunningIndex(s, k) = Border(s.segments, k - 1)
<1> DEFINE segs == s.segments
           h == CHOOSE f : f = IndexStep(s, k, f)
           g == [j \in 1 .. k |-> Border(segs, j - 1)]
<1>1. RunningIndex(s, k) = h[k]
  BY DEF RunningIndex, IndexStep
<1>2. /\ Border(segs, 0) = 0 /\ k \in Nat
      /\ \A j \in 1 .. k - 1 : Border(segs, j) = Border(segs, j - 1) + Len(segs[j])
  <2>1. Ruler(segs)
    BY RulerHolds
  <2>2. k \in 1 .. Len(segs)
    OBVIOUS
  <2> HIDE DEF segs, g, h
  <2>3. /\ Len(segs) \in Nat /\ Border(segs, 0) = 0
        /\ \A j \in 1 .. Len(segs) : Border(segs, j) = Border(segs, j - 1) + Len(segs[j])
    BY <2>1, Zenon DEF Ruler
  <2>4. k \in Nat /\ \A j \in 1 .. k - 1 : j \in 1 .. Len(segs)
    BY <2>2, <2>3
  <2> QED BY <2>3, <2>4, Zenon
<1> HIDE DEF segs
<1>3. \A j \in 1 .. k : j # 1 => Border(segs, j - 1) = Border(segs, j - 2) + Len(segs[j - 1])
  <2> SUFFICES ASSUME NEW j \in 1 .. k, j # 1 PROVE Border(segs, j - 1) = Border(segs, j - 2) + Len(segs[j - 1])
    OBVIOUS
  <2>1. j - 1 \in 1 .. k - 1 /\ j - 1 - 1 = j - 2
    BY <1>2
  <2> QED BY <1>2, <2>1
<1>4. g = IndexStep(s, k, g)
  <2>1. \A j \in 1 .. k : g[j] = IF j = 1 THEN 0 ELSE g[j - 1] + Len(segs[j - 1])
    <3> SUFFICES ASSUME NEW j \in 1 .. k PROVE g[j] = IF j = 1 THEN 0 ELSE g[j - 1] + Len(segs[j - 1])
      OBVIOUS
    <3>1. CASE j = 1
      BY <1>2, <3>1
    <3>2. CASE j # 1
      <4>1. j - 1 \in 1 .. k /\ j - 1 - 1 = j - 2
        BY <3>2
      <4> QED BY <1>3, <3>2, <4>1
    <3> QED BY <3>1, <3>2
  <2>2. g = [j \in 1 .. k |-> g[j]]
    OBVIOUS
  <2> HIDE DEF g
  <2> QED BY <2>1, <2>2 DEF IndexStep, segs
<1>5. h = IndexStep(s, k, h)
  BY <1>4
<1> HIDE DEF h, g
<1>6. \A j \in 1 .. k : h[j] = IF j = 1 THEN 0 ELSE h[j - 1] + Len(segs[j - 1])
  BY <1>5 DEF IndexStep, segs
<1> DEFINE S == {j \in 0 .. k : j # 0 => h[j] = Border(segs, j - 1)}
<1>7. 0 \in S
  BY <1>2
<1>8. ASSUME NEW j \in 0 .. k - 1, j \in S PROVE j + 1 \in S
  <2>1. j + 1 \in 1 .. k /\ j + 1 \in 0 .. k /\ j + 1 - 1 = j /\ j + 1 - 2 = j - 1
    BY <1>2
  <2>2. CASE j = 0
    BY <1>2, <1>6, <2>1, <2>2
  <2>3. CASE j # 0
    <3>1. h[j + 1] = h[j] + Len(segs[j]) /\ h[j] = Border(segs, j - 1)
      BY <1>6, <1>8, <2>1, <2>3
    <3>2. Border(segs, j) = Border(segs, j - 1) + Len(segs[j])
      BY <1>2, <2>3
    <3> QED BY <2>1, <3>1, <3>2
  <2> QED BY <2>2, <2>3
<1> HIDE DEF S
<1>9. \A j \in 0 .. k : j \in S
  BY <1>2, <1>7, <1>8, Upward
<1>10. k \in S /\ k # 0
  BY <1>2, <1>9
<1> QED BY <1>1, <1>10 DEF S, segs

-----------------------------------------------------------------------------
(* Parts of a sequence.                                                    *)

Spans(G, a, b) ==
    /\ G \in Seq(Elems) /\ Len(G) \in Nat
    /\ a \in Nat /\ b \in Nat /\ a <= b /\ b <= Len(G)

\* u is what lies in G behind the first a elements, up to the one with number b.
PartIs(u, G, a, b) ==
    /\ u \in Seq(Elems) /\ Len(u) \in Nat /\ Len(u) = b - a
    /\ \A i \in 1 .. b - a : u[i] = G[a + i]

\* SubSeq is the part between two places.
LEMMA PartOf ==
    ASSUME NEW G, NEW a, NEW b, Spans(G, a, b)
    PROVE  PartIs(SubSeq(G, a + 1, b), G, a, b)
<1> DEFINE u == SubSeq(G, a + 1, b)
<1>1. G \in Seq(Elems) /\ Len(G) \in Nat /\ a \in Nat /\ b \in Nat /\ a <= b /\ b <= Len(G)
  BY DEF Spans
<1>2. \A i \in a + 1 .. b : G[i] \in Elems
  <2>1. \A i \in 1 .. Len(G) : G[i] \in Elems
    BY <1>1
  <2>2. \A i \in a + 1 .. b : i \in 1 .. Len(G)
    BY <1>1
  <2> QED BY <2>1, <2>2
<1>3. /\ u \in Seq(Elems)
      /\ Len(u) = IF a + 1 <= b THEN b - (a + 1) + 1 ELSE 0
      /\ \A i \in 1 .. b - (a + 1) + 1 : u[i] = G[a + 1 + i - 1]
  <2>1. a + 1 \in Int /\ b \in Int
    BY <1>1
  <2> QED BY <1>2, <2>1, SubSeqProperties
<1> HIDE DEF u
<1>4. Len(u) = b - a /\ b - (a + 1) + 1 = b - a /\ b - a \in Nat
  BY <1>1, <1>3
<1>5. ASSUME NEW i \in 1 .. b - a PROVE u[i] = G[a + i]
  <2>1. a + 1 + i - 1 = a + i
    BY <1>1
  <2> QED BY <1>3, <1>4, <2>1
<1> QED BY <1>3, <1>4, <1>5 DEF PartIs, u

\* There is one part between two places only.
LEMMA PartEqual ==
    ASSUME NEW u, NEW v, NEW G, NEW a, NEW b, PartIs(u, G, a, b), PartIs(v, G, a, b)
    PROVE  u = v
<1>1. u \in Seq(Elems) /\ v \in Seq(Elems) /\ Len(u) = Len(v) /\ Len(u) = b - a
  BY DEF PartIs
<1>2. \A i \in 1 .. Len(u) : u[i] = v[i]
  BY <1>1 DEF PartIs
<1> QED BY <1>1, <1>2, SeqEqual

\* A part of a part is a part.
LEMMA PartOfPart ==
    ASSUME NEW u, NEW G, NEW a, NEW b, Spans(G, a, b), PartIs(u, G, a, b),
           NEW c \in Nat, NEW d \in Nat, c <= d, d <= b - a
    PROVE  PartIs(SubSeq(u, c + 1, d), G, a + c, a + d)
<1> DEFINE v == SubSeq(u, c + 1, d)
<1>1. u \in Seq(Elems) /\ Len(u) \in Nat /\ Len(u) = b - a /\ \A i \in 1 .. b - a : u[i] = G[a + i]
  BY DEF PartIs
<1>2. a \in Nat /\ b \in Nat
  BY DEF Spans
<1>3. PartIs(v, u, c, d)
  <2>1. Spans(u, c, d)
    BY <1>1 DEF Spans
  <2> QED BY <2>1, PartOf
<1>4. v \in Seq(Elems) /\ Len(v) \in Nat /\ Len(v) = d - c /\ \A i \in 1 .. d - c : v[i] = u[c + i]
  BY <1>3 DEF PartIs
<1> HIDE DEF v
<1>5. a + d - (a + c) = d - c
  BY <1>2
<1>6. ASSUME NEW i \in 1 .. d - c PROVE v[i] = G[a + c + i]
  <2>1. c + i \in 1 .. b - a /\ a + (c + i) = a + c + i
    BY <1>2
  <2>2. u[c + i] = G[a + (c + i)]
    BY <1>1, <2>1
  <2> QED BY <1>4, <2>1, <2>2
<1>7. Len(v) = a + d - (a + c) /\ \A i \in 1 .. a + d - (a + c) : v[i] = G[a + c + i]
  BY <1>4, <1>5, <1>6
<1>8. PartIs(v, G, a + c, a + d)
  BY <1>2, <1>4, <1>7 DEF PartIs
<1> QED BY <1>8 DEF v

\* Nothing, and what follows from the length.
LEMMA PartLength ==
    ASSUME NEW u, NEW G, NEW a, NEW b, Spans(G, a, b), PartIs(u, G, a, b)
    PROVE  u \in Seq(Elems) /\ Len(u) = b - a /\ Len(u) \in Nat /\ (u = <<>> <=> a = b)
<1>1. u \in Seq(Elems) /\ Len(u) = b - a /\ Len(u) \in Nat
  BY DEF PartIs
<1>2. a \in Nat /\ b \in Nat
  BY DEF Spans
<1>3. u = <<>> <=> Len(u) = 0
  BY <1>1, EmptySeq
<1> QED BY <1>1, <1>2, <1>3

-----------------------------------------------------------------------------
(* Positions and the places they stand for.                                *)

Listed(s) == s.segments \in Seq(Seq(Elems))

\* The numbers of a list: of its segments, of the elements of one, of those
\* in the first k, and of those before a position.
Count(s) == Len(s.segments)
Size(s, k) == Len(s.segments[k])
Edge(s, k) == Border(s.segments, k)
Place(s, p) == Border(s.segments, p.segment - 1) + p.index

Placed(s, p) == p \in Positions /\ InList(s, p)

\* A position is null or in a segment.
LEMMA PositionTyped ==
    ASSUME NEW p \in Positions
    PROVE  /\ p.segment \in Nat /\ p.index \in Nat /\ p = At(p.segment, p.index)
           /\ p = NullPosition <=> p.segment = 0
BY DEF Positions, NullPosition, At

LEMMA AtIs ==
    ASSUME NEW k, NEW i
    PROVE  At(k, i).segment = k /\ At(k, i).index = i /\ (k \in Nat \ {0} /\ i \in Nat => At(k, i) \in Positions)
BY DEF Positions, At

Edges(s) ==
    /\ Count(s) \in Nat /\ Edge(s, 0) = 0
    /\ \A k \in 1 .. Count(s) :
         /\ Size(s, k) \in Nat /\ Edge(s, k) \in Nat /\ Edge(s, k - 1) \in Nat
         /\ Edge(s, k) = Edge(s, k - 1) + Size(s, k)
    /\ \A j, k \in 0 .. Count(s) : j <= k => Edge(s, j) <= Edge(s, k)

\* The edges of a listed sequence: those of its segments.
LEMMA EdgesHold ==
    ASSUME NEW s, Listed(s)
    PROVE  Edges(s)
<1>1. Ruler(s.segments)
  BY RulerHolds DEF Listed
<1>2. /\ Count(s) \in Nat /\ Edge(s, 0) = 0
      /\ \A k \in 0 .. Count(s) : Edge(s, k) \in Nat
      /\ \A k \in 1 .. Count(s) : Size(s, k) \in Nat /\ Edge(s, k) = Edge(s, k - 1) + Size(s, k)
      /\ \A j, k \in 0 .. Count(s) : j <= k => Edge(s, j) <= Edge(s, k)
  BY <1>1 DEF Ruler, Count, Edge, Size
<1>3. \A k \in 1 .. Count(s) : k \in 0 .. Count(s) /\ k - 1 \in 0 .. Count(s)
  BY <1>2
<1> QED BY <1>2, <1>3 DEF Edges

\* What is known of a position in the list.
Charted(s, p) ==
    /\ p.segment \in Nat /\ 1 <= p.segment /\ p.segment <= Count(s) /\ Count(s) \in Nat
    /\ p.index \in Nat /\ Size(s, p.segment) \in Nat /\ p.index <= Size(s, p.segment)
    /\ Edge(s, p.segment - 1) \in Nat /\ Edge(s, p.segment) \in Nat
    /\ Edge(s, p.segment) = Edge(s, p.segment - 1) + Size(s, p.segment)
    /\ Place(s, p) = Edge(s, p.segment - 1) + p.index /\ Place(s, p) \in Nat
    /\ Place(s, p) <= Edge(s, p.segment)

\* Where a position is: between the edges of its segment, its index behind the first.
LEMMA ChartHolds ==
    ASSUME NEW s, Listed(s), NEW p, Placed(s, p)
    PROVE  Charted(s, p)
<1>1. Edges(s)
  BY EdgesHold
<1>2. p.segment \in Nat /\ p.index \in Nat /\ p.segment \in 1 .. Count(s) /\ p.index \in 0 .. Size(s, p.segment)
  <2>1. p \in Positions /\ p.segment \in 1 .. Count(s) /\ p.index \in 0 .. Size(s, p.segment)
    BY DEF Placed, InList, Count, Size
  <2> QED BY <2>1, PositionTyped
<1>3. Place(s, p) = Edge(s, p.segment - 1) + p.index
  BY DEF Place, Edge
<1>4. /\ Count(s) \in Nat /\ Size(s, p.segment) \in Nat
      /\ Edge(s, p.segment - 1) \in Nat /\ Edge(s, p.segment) \in Nat
      /\ Edge(s, p.segment) = Edge(s, p.segment - 1) + Size(s, p.segment)
  BY <1>1, <1>2 DEF Edges
<1> QED BY <1>2, <1>3, <1>4 DEF Charted

\* Edges ascend.
LEMMA EdgeOrder ==
    ASSUME NEW s, Listed(s), NEW j \in Nat, NEW k \in Nat, j <= k, k <= Count(s)
    PROVE  Edge(s, j) \in Nat /\ Edge(s, k) \in Nat /\ Edge(s, j) <= Edge(s, k)
<1>1. Edges(s)
  BY EdgesHold
<1>2. j \in 0 .. Count(s) /\ k \in 0 .. Count(s) /\ Count(s) \in Nat
  BY <1>1 DEF Edges
<1>3. \A i \in 0 .. Count(s) : Edge(s, i) \in Nat
  BY <1>1, <1>2 DEF Edges
<1> QED BY <1>1, <1>2, <1>3 DEF Edges

\* The order of positions is the order of places, but for the two sides of a border.
LEMMA PlaceOrder ==
    ASSUME NEW s, Listed(s), NEW p, NEW q, Placed(s, p), Placed(s, q), NotAfter(p, q)
    PROVE  Place(s, p) <= Place(s, q)
<1>1. Charted(s, p) /\ Charted(s, q)
  BY ChartHolds
<1>2. CASE p.segment = q.segment /\ p.index <= q.index
  BY <1>1, <1>2 DEF Charted
<1>3. CASE p.segment < q.segment
  <2>1. p.segment \in Nat /\ q.segment - 1 \in Nat /\ p.segment <= q.segment - 1 /\ q.segment - 1 <= Count(s)
    BY <1>1, <1>3 DEF Charted
  <2>2. Edge(s, p.segment) <= Edge(s, q.segment - 1)
    BY <2>1, EdgeOrder
  <2> QED BY <1>1, <2>2 DEF Charted
<1> QED BY <1>2, <1>3 DEF NotAfter

\* The other way round if q, in a segment before that of p, is not at its end.
LEMMA PlaceBefore ==
    ASSUME NEW s, Listed(s), NEW p, NEW q, Placed(s, p), Placed(s, q),
           Place(s, p) <= Place(s, q), p.segment <= q.segment \/ q.index < Size(s, q.segment)
    PROVE  NotAfter(p, q)
<1>1. Charted(s, p) /\ Charted(s, q)
  BY ChartHolds
<1>2. ASSUME q.segment < p.segment PROVE FALSE
  <2>1. q.segment \in Nat /\ p.segment - 1 \in Nat /\ q.segment <= p.segment - 1 /\ p.segment - 1 <= Count(s)
    BY <1>1, <1>2 DEF Charted
  <2>2. Edge(s, q.segment) <= Edge(s, p.segment - 1)
    BY <2>1, EdgeOrder
  <2>3. q.index < Size(s, q.segment)
    BY <1>1, <1>2 DEF Charted
  <2> QED BY <1>1, <2>2, <2>3 DEF Charted
<1>3. p.segment < q.segment \/ p.segment = q.segment
  BY <1>1, <1>2 DEF Charted
<1>4. CASE p.segment = q.segment
  <2>1. p.index <= q.index
    BY <1>1, <1>4 DEF Charted
  <2> QED BY <1>4, <2>1 DEF NotAfter
<1> QED BY <1>3, <1>4 DEF NotAfter

-----------------------------------------------------------------------------
(* Windows, and the buffers in them.                                       *)

\* A sequence between two positions of its list.
Window(s) ==
    /\ s \in [segments : Seq(Seq(Elems)), begin : Positions, end : Positions]
    /\ Placed(s, s.begin) /\ Placed(s, s.end) /\ NotAfter(s.begin, s.end)

\* p is in the list and not behind the end of the sequence.
Within(s, p) == Placed(s, p) /\ NotAfter(p, s.end)

Whole(s) == All(s.segments)

Lo(s) == Place(s, s.begin)
Hi(s) == Place(s, s.end)

\* Where the buffer ends that begins in segment k.
Upto(s, k) == IF k = s.end.segment THEN Hi(s) ELSE Edge(s, k)

LEMMA WindowListed ==
    ASSUME NEW s, Window(s)
    PROVE  Listed(s) /\ Within(s, s.begin) /\ Within(s, s.end)
<1>1. Listed(s) /\ Placed(s, s.begin) /\ Placed(s, s.end) /\ NotAfter(s.begin, s.end)
  BY DEF Window, Listed
<1>2. NotAfter(s.end, s.end)
  <2>1. Charted(s, s.end)
    BY <1>1, ChartHolds
  <2> QED BY <2>1 DEF Charted, NotAfter
<1> QED BY <1>1, <1>2 DEF Within

\* The place of a position is the index the reference gives it.
LEMMA FlatIndexIs ==
    ASSUME NEW s, NEW p, Placed(s, p)
    PROVE  FlatIndex(s, p) = Place(s, p)
<1>1. p # NullPosition
  <2>1. p \in Positions /\ p.segment \in 1 .. Len(s.segments)
    BY DEF Placed, InList
  <2> QED BY <2>1, PositionTyped
<1> QED BY <1>1 DEF FlatIndex, Place, Border

\* A segment is the part between its edges.
LEMMA SegmentIs ==
    ASSUME NEW s, Listed(s), NEW k \in 1 .. Count(s)
    PROVE  /\ Spans(Whole(s), Edge(s, k - 1), Edge(s, k))
           /\ PartIs(s.segments[k], Whole(s), Edge(s, k - 1), Edge(s, k))
<1> DEFINE segs == s.segments
<1>1. Ruler(segs) /\ Edges(s) /\ k \in 1 .. Len(segs)
  BY RulerHolds, EdgesHold DEF Listed, Count
<1> HIDE DEF segs
<1>2. /\ All(segs) \in Seq(Elems) /\ Len(All(segs)) \in Nat
      /\ Border(segs, Len(segs)) = Len(All(segs)) /\ Len(segs) \in Nat
  BY <1>1 DEF Ruler
<1>3. /\ segs[k] \in Seq(Elems) /\ Len(segs[k]) \in Nat
      /\ Border(segs, k) = Border(segs, k - 1) + Len(segs[k])
      /\ \A i \in 1 .. Len(segs[k]) : All(segs)[Border(segs, k - 1) + i] = segs[k][i]
  BY <1>1 DEF Ruler
<1>4. /\ Edge(s, k) = Border(segs, k) /\ Edge(s, k - 1) = Border(segs, k - 1)
      /\ Whole(s) = All(segs) /\ Size(s, k) = Len(segs[k])
  BY DEF Edge, Whole, Size, segs
<1>5. /\ Edge(s, k) \in Nat /\ Edge(s, k - 1) \in Nat /\ Edge(s, k - 1) <= Edge(s, k)
      /\ Edge(s, k) - Edge(s, k - 1) = Len(segs[k])
  <2>1. /\ Size(s, k) \in Nat /\ Edge(s, k) \in Nat /\ Edge(s, k - 1) \in Nat
        /\ Edge(s, k) = Edge(s, k - 1) + Size(s, k)
    BY <1>1 DEF Edges
  <2> QED BY <1>4, <2>1
<1>6. Edge(s, k) <= Len(Whole(s))
  <2>1. k \in 0 .. Len(segs) /\ Len(segs) \in 0 .. Len(segs) /\ k <= Len(segs)
    BY <1>1, <1>2
  <2>2. Border(segs, k) <= Border(segs, Len(segs))
    BY <1>1, <2>1 DEF Ruler
  <2> QED BY <1>2, <1>4, <2>2
<1>7. Spans(Whole(s), Edge(s, k - 1), Edge(s, k))
  BY <1>2, <1>4, <1>5, <1>6 DEF Spans
<1>8. \A i \in 1 .. Edge(s, k) - Edge(s, k - 1) : segs[k][i] = Whole(s)[Edge(s, k - 1) + i]
  BY <1>3, <1>4, <1>5
<1>9. PartIs(segs[k], Whole(s), Edge(s, k - 1), Edge(s, k))
  BY <1>3, <1>5, <1>8 DEF PartIs
<1> QED BY <1>7, <1>9 DEF segs

\* A part of a segment.
LEMMA SlicePart ==
    ASSUME NEW s, Listed(s), NEW k \in 1 .. Count(s), NEW c \in Nat, NEW d \in Nat, c <= d, d <= Size(s, k)
    PROVE  /\ Spans(Whole(s), Edge(s, k - 1) + c, Edge(s, k - 1) + d)
           /\ PartIs(Slice(s.segments[k], c, d), Whole(s), Edge(s, k - 1) + c, Edge(s, k - 1) + d)
<1>1. /\ Spans(Whole(s), Edge(s, k - 1), Edge(s, k))
      /\ PartIs(s.segments[k], Whole(s), Edge(s, k - 1), Edge(s, k))
  BY SegmentIs
<1>2. /\ Size(s, k) \in Nat /\ Edge(s, k) \in Nat /\ Edge(s, k - 1) \in Nat
      /\ Edge(s, k) = Edge(s, k - 1) + Size(s, k)
  <2>1. Edges(s)
    BY EdgesHold
  <2> QED BY <2>1 DEF Edges
<1>3. d <= Edge(s, k) - Edge(s, k - 1)
  BY <1>2
<1>4. PartIs(SubSeq(s.segments[k], c + 1, d), Whole(s), Edge(s, k - 1) + c, Edge(s, k - 1) + d)
  BY <1>1, <1>3, PartOfPart
<1>5. Spans(Whole(s), Edge(s, k - 1) + c, Edge(s, k - 1) + d)
  BY <1>1, <1>2 DEF Spans
<1> QED BY <1>4, <1>5 DEF Slice

\* TryGetBuffer returns what lies between the position and the end of its segment.
LEMMA BufferIs ==
    ASSUME NEW s, Listed(s), Placed(s, s.end), NEW p, Within(s, p)
    PROVE  /\ Spans(Whole(s), Place(s, p), Upto(s, p.segment))
           /\ PartIs(Buffer(s, p), Whole(s), Place(s, p), Upto(s, p.segment))
<1> DEFINE k == p.segment
           d == IF k = s.end.segment THEN s.end.index ELSE Size(s, k)
<1>1. Charted(s, p) /\ Charted(s, s.end) /\ NotAfter(p, s.end)
  BY ChartHolds DEF Within
<1>2. k \in 1 .. Count(s) /\ p.index \in Nat /\ d \in Nat /\ p.index <= d /\ d <= Size(s, k)
  BY <1>1 DEF Charted, NotAfter
<1>3. Buffer(s, p) = Slice(s.segments[k], p.index, d)
  BY DEF Buffer, Size
<1>4. Edge(s, k - 1) + p.index = Place(s, p) /\ Edge(s, k - 1) + d = Upto(s, k)
  BY <1>1 DEF Charted, Upto, Hi
<1>5. /\ Spans(Whole(s), Edge(s, k - 1) + p.index, Edge(s, k - 1) + d)
      /\ PartIs(Slice(s.segments[k], p.index, d), Whole(s), Edge(s, k - 1) + p.index, Edge(s, k - 1) + d)
  <2> HIDE DEF k, d
  <2> QED BY <1>2, SlicePart
<1> QED BY <1>3, <1>4, <1>5

\* The window is a part of the whole list.
LEMMA WindowSpan ==
    ASSUME NEW s, Window(s)
    PROVE  Spans(Whole(s), Lo(s), Hi(s)) /\ Lo(s) \in Nat /\ Hi(s) \in Nat /\ Lo(s) <= Hi(s)
<1>1. /\ Listed(s) /\ Within(s, s.begin) /\ Within(s, s.end) /\ Placed(s, s.begin)
      /\ Placed(s, s.end) /\ NotAfter(s.begin, s.end)
  BY WindowListed DEF Within
<1>2. Lo(s) <= Hi(s)
  BY <1>1, PlaceOrder DEF Lo, Hi
<1>3. Spans(Whole(s), Place(s, s.end), Upto(s, s.end.segment))
  BY <1>1, BufferIs
<1>4. Charted(s, s.begin) /\ Charted(s, s.end)
  BY <1>1, ChartHolds
<1>5. Lo(s) \in Nat /\ Hi(s) \in Nat
  BY <1>4 DEF Charted, Lo, Hi
<1>6. Spans(Whole(s), Lo(s), Hi(s))
  BY <1>2, <1>3, <1>5 DEF Spans, Hi, Upto
<1> QED BY <1>2, <1>5, <1>6

\* The elements of a window, as many as GetLength says.
LEMMA WindowIs ==
    ASSUME NEW s, Window(s)
    PROVE  /\ PartIs(Elements(s), Whole(s), Lo(s), Hi(s))
           /\ Elements(s) \in Seq(Elems) /\ Len(Elements(s)) = Hi(s) - Lo(s) /\ Len(Elements(s)) \in Nat
           /\ FlatIndex(s, s.begin) = Lo(s)
           /\ GetLength(s) = Len(Elements(s))
<1>1. Listed(s) /\ Placed(s, s.begin) /\ Placed(s, s.end)
  BY WindowListed DEF Within
<1>2. FlatIndex(s, s.begin) = Lo(s) /\ FlatIndex(s, s.end) = Hi(s)
  BY <1>1, FlatIndexIs DEF Lo, Hi
<1>3. Spans(Whole(s), Lo(s), Hi(s))
  BY WindowSpan
<1>4. PartIs(SubSeq(Whole(s), Lo(s) + 1, Hi(s)), Whole(s), Lo(s), Hi(s))
  BY <1>3, PartOf
<1>5. Elements(s) = SubSeq(Whole(s), Lo(s) + 1, Hi(s))
  BY <1>2 DEF Elements, Whole, All
<1>6. PartIs(Elements(s), Whole(s), Lo(s), Hi(s))
  BY <1>4, <1>5
<1>7. Elements(s) \in Seq(Elems) /\ Len(Elements(s)) = Hi(s) - Lo(s) /\ Len(Elements(s)) \in Nat
  BY <1>3, <1>6, PartLength
<1>8. GetLength(s) = Hi(s) - Lo(s)
  <2>1. Charted(s, s.begin) /\ Charted(s, s.end)
    BY <1>1, ChartHolds
  <2>2. CASE IsSingleSegment(s)
    BY <2>1, <2>2 DEF Charted, GetLength, IsSingleSegment, Lo, Hi
  <2>3. CASE ~IsSingleSegment(s)
    <3>1. s.begin.segment \in 1 .. Len(s.segments) /\ s.end.segment \in 1 .. Len(s.segments)
      BY <1>1 DEF Placed, InList
    <3>2. /\ RunningIndex(s, s.begin.segment) = Edge(s, s.begin.segment - 1)
          /\ RunningIndex(s, s.end.segment) = Edge(s, s.end.segment - 1)
      BY <1>1, <3>1, RunningIndexIs DEF Listed, Edge
    <3> QED BY <2>1, <2>3, <3>2 DEF Charted, GetLength, Lo, Hi
  <2> QED BY <2>2, <2>3
<1> QED BY <1>2, <1>6, <1>7, <1>8

\* The first position of a segment that does not lie behind the end.
LEMMA StartWithin ==
    ASSUME NEW s, Listed(s), Placed(s, s.end), NEW k \in Nat, 1 <= k, k <= s.end.segment
    PROVE  /\ Within(s, At(k, 0)) /\ At(k, 0).segment = k /\ At(k, 0).index = 0
           /\ Place(s, At(k, 0)) = Edge(s, k - 1) /\ Edge(s, k - 1) \in Nat
<1> DEFINE p == At(k, 0)
<1>1. p.segment = k /\ p.index = 0 /\ p \in Positions
  BY AtIs
<1> HIDE DEF p
<1>2. Charted(s, s.end) /\ Edges(s)
  BY ChartHolds, EdgesHold
<1>3. k \in 1 .. Count(s)
  BY <1>2 DEF Charted
<1>4. Size(s, k) \in Nat /\ Edge(s, k - 1) \in Nat
  BY <1>2, <1>3 DEF Edges
<1>5. InList(s, p)
  BY <1>1, <1>3, <1>4 DEF InList, Count, Size
<1>6. NotAfter(p, s.end)
  <2>1. s.end.segment \in Nat /\ s.end.index \in Nat
    BY <1>2 DEF Charted
  <2>2. k < s.end.segment \/ (k = s.end.segment /\ 0 <= s.end.index)
    BY <2>1
  <2> QED BY <1>1, <2>2 DEF NotAfter
<1>7. Place(s, p) = Edge(s, k - 1)
  BY <1>1, <1>4 DEF Place, Edge
<1> QED BY <1>1, <1>4, <1>5, <1>6, <1>7 DEF Within, Placed, p

\* A sequence of one.
LEMMA FlattenOne ==
    ASSUME NEW u \in Seq(Elems)
    PROVE  FlattenSeq(<<u>>) = u
<1> DEFINE segs == <<u>>
           R == [j \in 0 .. 1 |-> IF j = 0 THEN 0 ELSE Len(u)]
<1>1. segs \in Seq(Seq(Elems)) /\ Len(segs) = 1 /\ segs[1] = u /\ Len(u) \in Nat
  OBVIOUS
<1>2. R \in [0 .. 1 -> Nat] /\ R[0] = 0 /\ R[1] = Len(u)
  OBVIOUS
<1> HIDE DEF segs, R
<1>3. ASSUME NEW k \in 1 .. 1
      PROVE  /\ segs[k] \in Seq(Elems) /\ Len(segs[k]) \in Nat /\ R[k - 1] \in Nat /\ R[k] \in Nat
             /\ R[k] = R[k - 1] + Len(segs[k])
             /\ \A i \in 1 .. Len(segs[k]) : u[R[k - 1] + i] = segs[k][i]
  <2>1. k = 1 /\ k - 1 = 0
    OBVIOUS
  <2>2. R[k] = Len(u) /\ R[k - 1] = 0 /\ segs[k] = u
    BY <1>1, <1>2, <2>1
  <2>3. \A i \in 1 .. Len(u) : 0 + i = i
    BY <1>1
  <2> QED BY <1>1, <2>2, <2>3
<1>4. Laid(Elems, segs, 1, R, u)
  BY <1>1, <1>2, <1>3 DEF Laid
<1>5. FlattenSeq(segs) = u
  BY <1>4, LaidFlat
<1> QED BY <1>5 DEF segs

\* Where the k-th of the buffers from the beginning on begins.
BufferStart(s, k) == IF k = 1 THEN s.begin ELSE At(s.begin.segment + k - 1, 0)

BufferCount(s) == s.end.segment - s.begin.segment + 1

\* How many elements the first k buffers have.
BufferEdge(s, k) == IF k = 0 THEN 0 ELSE Upto(s, s.begin.segment + k - 1) - Lo(s)

\* Each buffer begins where the one before ends.
LEMMA BufferStartIs ==
    ASSUME NEW s, Window(s), NEW k \in 1 .. BufferCount(s)
    PROVE  /\ Within(s, BufferStart(s, k)) /\ BufferStart(s, k).segment = s.begin.segment + k - 1
           /\ Place(s, BufferStart(s, k)) = Lo(s) + BufferEdge(s, k - 1)
           /\ BufferCount(s) \in Nat
<1>1. Listed(s) /\ Within(s, s.begin) /\ Placed(s, s.end) /\ Charted(s, s.begin) /\ Charted(s, s.end)
  <2>1. Listed(s) /\ Within(s, s.begin) /\ Placed(s, s.begin) /\ Placed(s, s.end)
    BY WindowListed DEF Within
  <2> QED BY <2>1, ChartHolds
<1> DEFINE b == s.begin.segment
           e == s.end.segment
<1>2. b \in Nat /\ e \in Nat /\ 1 <= b /\ BufferCount(s) = e - b + 1
  BY <1>1 DEF Charted, BufferCount
<1>3. Lo(s) \in Nat /\ Lo(s) = Place(s, s.begin)
  BY WindowSpan DEF Lo
<1>4. BufferCount(s) \in Nat /\ k \in Nat
  BY <1>2
<1>5. CASE k = 1
  <2>1. BufferStart(s, k) = s.begin /\ BufferEdge(s, k - 1) = 0 /\ b + k - 1 = b
    BY <1>2, <1>5 DEF BufferStart, BufferEdge
  <2> QED BY <1>1, <1>3, <1>4, <2>1
<1>6. CASE k # 1
  <2>1. PICK m \in Nat : m = b + k - 1
    BY <1>2
  <2>2. /\ 1 <= m /\ m <= s.end.segment /\ k - 1 # 0 /\ b + (k - 1) - 1 = m - 1
        /\ m - 1 # s.end.segment /\ BufferStart(s, k) = At(m, 0)
    BY <1>2, <1>6, <2>1 DEF BufferStart
  <2>3. /\ Within(s, At(m, 0)) /\ At(m, 0).segment = m /\ Place(s, At(m, 0)) = Edge(s, m - 1)
        /\ Edge(s, m - 1) \in Nat
    BY <1>1, <2>2, StartWithin
  <2>4. BufferEdge(s, k - 1) = Edge(s, m - 1) - Lo(s)
    BY <2>2 DEF BufferEdge, Upto
  <2> QED BY <1>3, <1>4, <2>1, <2>2, <2>3, <2>4
<1> QED BY <1>5, <1>6

\* The buffers one after the other are the elements.
LEMMA BuffersAreElements ==
    ASSUME NEW s, Window(s)
    PROVE  FlattenSeq(Buffers(s)) = Elements(s)
<1> DEFINE n == BufferCount(s)
           G == Elements(s)
           B == Buffers(s)
           R == [k \in 0 .. n |-> BufferEdge(s, k)]
<1>1. Spans(Whole(s), Lo(s), Hi(s)) /\ Lo(s) \in Nat /\ Hi(s) \in Nat /\ Lo(s) <= Hi(s)
  BY WindowSpan
<1>2. PartIs(G, Whole(s), Lo(s), Hi(s)) /\ G \in Seq(Elems) /\ Len(G) \in Nat /\ Len(G) = Hi(s) - Lo(s)
  BY WindowIs
<1>3. n \in Nat /\ 1 <= n /\ s.begin.segment + n - 1 = s.end.segment
  <2>1. Placed(s, s.begin) /\ Placed(s, s.end) /\ Listed(s) /\ NotAfter(s.begin, s.end)
    BY WindowListed DEF Within
  <2>2. Charted(s, s.begin) /\ Charted(s, s.end)
    BY <2>1, ChartHolds
  <2> QED BY <2>1, <2>2 DEF Charted, NotAfter, BufferCount
<1>4. B = [k \in 1 .. n |-> Buffer(s, BufferStart(s, k))]
  BY DEF Buffers, BufferStart, BufferCount
<1>5. \A k \in 1 .. n : B[k] = Buffer(s, BufferStart(s, k))
  BY <1>4
<1>6. R[0] = 0 /\ \A k \in 0 .. n : R[k] = BufferEdge(s, k)
  BY <1>3 DEF BufferEdge
<1> HIDE DEF n, B, R
<1>7. ASSUME NEW k \in 1 .. n
      PROVE  /\ Spans(Whole(s), Lo(s) + R[k - 1], Upto(s, s.begin.segment + k - 1))
             /\ PartIs(B[k], Whole(s), Lo(s) + R[k - 1], Upto(s, s.begin.segment + k - 1))
  <2>1. Listed(s) /\ Placed(s, s.end)
    BY WindowListed DEF Within
  <2>2. /\ Within(s, BufferStart(s, k)) /\ BufferStart(s, k).segment = s.begin.segment + k - 1
        /\ Place(s, BufferStart(s, k)) = Lo(s) + BufferEdge(s, k - 1)
    BY BufferStartIs DEF n
  <2>3. /\ Spans(Whole(s), Place(s, BufferStart(s, k)), Upto(s, BufferStart(s, k).segment))
        /\ PartIs(Buffer(s, BufferStart(s, k)), Whole(s), Place(s, BufferStart(s, k)), Upto(s, BufferStart(s, k).segment))
    BY <2>1, <2>2, BufferIs
  <2>4. R[k - 1] = BufferEdge(s, k - 1) /\ B[k] = Buffer(s, BufferStart(s, k))
    BY <1>3, <1>5, <1>6
  <2> QED BY <2>2, <2>3, <2>4
<1>8. \A k \in 1 .. n : Upto(s, s.begin.segment + k - 1) = Lo(s) + R[k] /\ R[k] = Upto(s, s.begin.segment + k - 1) - Lo(s)
  <2> SUFFICES ASSUME NEW k \in 1 .. n
               PROVE  Upto(s, s.begin.segment + k - 1) = Lo(s) + R[k] /\ R[k] = Upto(s, s.begin.segment + k - 1) - Lo(s)
    OBVIOUS
  <2>1. R[k] = Upto(s, s.begin.segment + k - 1) - Lo(s)
    BY <1>3, <1>6 DEF BufferEdge
  <2>2. Upto(s, s.begin.segment + k - 1) \in Nat
    BY <1>7 DEF Spans
  <2> QED BY <1>1, <2>1, <2>2
<1> DEFINE S == {k \in 0 .. n : R[k] \in Nat}
<1>9. 0 \in S
  BY <1>3, <1>6
<1>10. ASSUME NEW k \in 0 .. n - 1, k \in S PROVE k + 1 \in S
  <2>1. k + 1 \in 1 .. n /\ k + 1 - 1 = k /\ k + 1 \in 0 .. n
    BY <1>3
  <2>2. /\ Lo(s) + R[k] <= Upto(s, s.begin.segment + (k + 1) - 1)
        /\ Upto(s, s.begin.segment + (k + 1) - 1) \in Nat
        /\ R[k + 1] = Upto(s, s.begin.segment + (k + 1) - 1) - Lo(s)
    BY <1>7, <1>8, <2>1 DEF Spans
  <2>3. R[k] \in Nat
    BY <1>10
  <2>4. R[k + 1] \in Nat
    BY <1>1, <2>2, <2>3
  <2> QED BY <2>1, <2>4
<1> HIDE DEF S
<1>11. \A k \in 0 .. n : R[k] \in Nat
  <2>1. \A k \in 0 .. n : k \in S
    BY <1>3, <1>9, <1>10, Upward
  <2> QED BY <2>1 DEF S
<1>12. R[n] = Len(G)
  <2>1. R[n] = Upto(s, s.end.segment) - Lo(s)
    BY <1>3, <1>8
  <2> QED BY <1>2, <2>1 DEF Upto
<1>13. \A k \in 0 .. n : R[k] <= Hi(s) - Lo(s)
  <2>1. \A k \in 1 .. n : R[k] <= Hi(s) - Lo(s)
    <3> SUFFICES ASSUME NEW k \in 1 .. n PROVE R[k] <= Hi(s) - Lo(s)
      OBVIOUS
    <3> DEFINE m == s.begin.segment + k - 1
    <3>1. Listed(s) /\ Placed(s, s.begin) /\ Placed(s, s.end) /\ Charted(s, s.begin) /\ Charted(s, s.end)
      <4>1. Listed(s) /\ Placed(s, s.begin) /\ Placed(s, s.end)
        BY WindowListed DEF Within
      <4> QED BY <4>1, ChartHolds
    <3>2. m \in Nat /\ m <= s.end.segment
      BY <1>3, <3>1 DEF Charted
    <3>3. R[k] = Upto(s, m) - Lo(s)
      BY <1>8
    <3> HIDE DEF m
    <3>4. CASE m = s.end.segment
      BY <1>1, <3>3, <3>4 DEF Upto
    <3>5. CASE m # s.end.segment
      <4>1. m <= s.end.segment - 1 /\ s.end.segment - 1 \in Nat /\ s.end.segment - 1 <= Count(s)
        <5>1. s.end.segment \in Nat /\ s.end.segment <= Count(s) /\ Count(s) \in Nat
          BY <3>1 DEF Charted
        <5> QED BY <3>2, <3>5, <5>1
      <4>2. Edge(s, m) \in Nat /\ Edge(s, m) <= Edge(s, s.end.segment - 1)
        BY <3>1, <3>2, <4>1, EdgeOrder
      <4>3. Edge(s, s.end.segment - 1) \in Nat /\ Edge(s, s.end.segment - 1) <= Hi(s)
        BY <3>1 DEF Charted, Hi
      <4> QED BY <1>1, <3>3, <3>5, <4>2, <4>3 DEF Upto
    <3> QED BY <3>4, <3>5
  <2> QED BY <1>1, <1>6, <2>1
<1>14. ASSUME NEW k \in 1 .. n
       PROVE  /\ B[k] \in Seq(Elems) /\ Len(B[k]) \in Nat /\ R[k - 1] \in Nat /\ R[k] \in Nat
              /\ R[k] = R[k - 1] + Len(B[k])
              /\ \A i \in 1 .. Len(B[k]) : G[R[k - 1] + i] = B[k][i]
  <2> DEFINE lo == Lo(s) + R[k - 1]
             hi == Lo(s) + R[k]
  <2>1. R[k - 1] \in Nat /\ R[k] \in Nat /\ R[k] <= Hi(s) - Lo(s)
    BY <1>3, <1>11, <1>13
  <2>2. Spans(Whole(s), lo, hi) /\ PartIs(B[k], Whole(s), lo, hi)
    BY <1>7, <1>8
  <2>3. B[k] \in Seq(Elems) /\ Len(B[k]) \in Nat /\ Len(B[k]) = hi - lo /\ \A i \in 1 .. hi - lo : B[k][i] = Whole(s)[lo + i]
    BY <2>2 DEF PartIs
  <2>4. R[k] = R[k - 1] + Len(B[k])
    BY <1>1, <2>1, <2>3
  <2>5. ASSUME NEW i \in 1 .. Len(B[k]) PROVE G[R[k - 1] + i] = B[k][i]
    <3>1. B[k][i] = Whole(s)[Lo(s) + R[k - 1] + i]
      BY <2>3
    <3>2. R[k - 1] + i \in 1 .. Hi(s) - Lo(s) /\ Lo(s) + (R[k - 1] + i) = Lo(s) + R[k - 1] + i
      <4>1. i \in Nat /\ 1 <= i /\ R[k - 1] + i <= R[k]
        <5>1. Len(B[k]) \in Nat
          BY <2>3
        <5> QED BY <2>1, <2>4, <5>1
      <4> QED BY <1>1, <2>1, <4>1
    <3>3. G[R[k - 1] + i] = Whole(s)[Lo(s) + (R[k - 1] + i)]
      BY <1>2, <3>2 DEF PartIs
    <3> QED BY <3>1, <3>2, <3>3
  <2> QED BY <2>1, <2>3, <2>4, <2>5
<1>15. B \in Seq(Seq(Elems)) /\ Len(B) = n
  <2>1. \A k \in 1 .. n : Buffer(s, BufferStart(s, k)) \in Seq(Elems)
    BY <1>5, <1>14
  <2> QED BY <1>3, <1>4, <2>1
<1>16. R \in [0 .. n -> Nat]
  <2>1. R = [k \in 0 .. n |-> R[k]]
    BY DEF R
  <2> QED BY <1>11, <2>1
<1> HIDE DEF G
<1>17. Laid(Elems, B, n, R, G)
  BY <1>2, <1>3, <1>6, <1>12, <1>14, <1>15, <1>16 DEF Laid
<1>18. FlattenSeq(B) = G
  BY <1>17, LaidFlat
<1> QED BY <1>18 DEF B, G

-----------------------------------------------------------------------------
(* The iterator.                                                           *)

\* The equation of the iterator's recursive function.
IteratorStep(s, f) ==
    [k \in 1 .. s.end.segment - s.begin.segment + 2 |->
        IF k = 1 THEN IteratorBegin(s) ELSE Incremented(s, f[k - 1])]

\* Iterators that follow each other, up to the first one that is end().
Visits(s, g, stop) ==
    /\ s.end.segment - s.begin.segment + 2 \in Nat
    /\ stop \in 1 .. s.end.segment - s.begin.segment + 2
    /\ g = IteratorStep(s, g)
    /\ g[stop].current = NullPosition
    /\ \A k \in 1 .. stop - 1 : g[k].current # NullPosition

\* The loop shows the buffers of the iterators before that one.
LEMMA LoopShows ==
    ASSUME NEW s, NEW g, NEW stop, Visits(s, g, stop)
    PROVE  IteratedBuffers(s) = [k \in 1 .. stop - 1 |-> g[k].buffer]
<1> DEFINE n == s.end.segment - s.begin.segment + 2
           h == CHOOSE f : f = IteratorStep(s, f)
           Stops == {k \in 1 .. n : h[k].current = NullPosition}
<1>1. IteratedBuffers(s) = [k \in 1 .. Min(Stops) - 1 |-> h[k].buffer]
  BY DEF IteratedBuffers, IteratorStep
<1>2. /\ n \in Nat /\ stop \in 1 .. n /\ g = IteratorStep(s, g) /\ h = IteratorStep(s, h)
      /\ g[stop].current = NullPosition
      /\ \A k \in 1 .. stop - 1 : g[k].current # NullPosition
  BY DEF Visits
<1> HIDE DEF h
<1>3. \A k \in 1 .. n : /\ g[k] = IF k = 1 THEN IteratorBegin(s) ELSE Incremented(s, g[k - 1])
                        /\ h[k] = IF k = 1 THEN IteratorBegin(s) ELSE Incremented(s, h[k - 1])
  BY <1>2 DEF IteratorStep
<1> HIDE DEF n
<1> DEFINE S == {k \in 0 .. n : k # 0 => h[k] = g[k]}
<1>4. 0 \in S
  BY <1>2
<1>5. ASSUME NEW k \in 0 .. n - 1, k \in S PROVE k + 1 \in S
  <2>1. k + 1 \in 1 .. n /\ k + 1 \in 0 .. n /\ k + 1 - 1 = k /\ (k + 1 = 1 <=> k = 0)
    BY <1>2
  <2> QED BY <1>3, <1>5, <2>1
<1> HIDE DEF S
<1>6. \A k \in 0 .. n : k \in S
  BY <1>2, <1>4, <1>5, Upward
<1>7. \A k \in 1 .. n : h[k] = g[k]
  BY <1>6 DEF S
<1>8. Min(Stops) = stop
  <2>1. Stops \subseteq Nat /\ stop \in Stops
    BY <1>2, <1>7
  <2>2. \A k \in Stops : k \in 1 .. n /\ ~(k \in 1 .. stop - 1)
    BY <1>2, <1>7
  <2> HIDE DEF Stops
  <2>3. Min(Stops) \in Stops /\ Min(Stops) \in Nat /\ Min(Stops) <= stop
    BY <2>1, LeastOf
  <2>4. stop \in Nat /\ Min(Stops) \in 1 .. n /\ ~(Min(Stops) \in 1 .. stop - 1)
    BY <1>2, <2>2, <2>3
  <2> QED BY <2>3, <2>4
<1>9. [k \in 1 .. stop - 1 |-> h[k].buffer] = [k \in 1 .. stop - 1 |-> g[k].buffer]
  BY <1>2, <1>7
<1> QED BY <1>1, <1>8, <1>9

\* Of a window the loop shows one buffer for each segment, always the one before
\* the one its position has passed.
LEMMA IteratorIsBehind ==
    ASSUME NEW s, Window(s)
    PROVE  IteratedBuffers(s) = OneBehind(s)
<1> DEFINE n == BufferCount(s)
           B == Buffers(s)
           g == [k \in 1 .. n + 1 |->
                    [current |-> IF k = n + 1 THEN NullPosition ELSE BufferStart(s, k),
                     buffer |-> IF k = 1 THEN First(s) ELSE B[k - 1]]]
<1>1. n \in Nat /\ 1 <= n /\ s.begin.segment + n - 1 = s.end.segment /\ s.begin.segment \in Nat \ {0}
  <2>1. Placed(s, s.begin) /\ Placed(s, s.end) /\ Listed(s) /\ NotAfter(s.begin, s.end)
    BY WindowListed DEF Within
  <2>2. Charted(s, s.begin) /\ Charted(s, s.end)
    BY <2>1, ChartHolds
  <2> QED BY <2>1, <2>2 DEF Charted, NotAfter, BufferCount
<1>2. B = [k \in 1 .. n |-> Buffer(s, BufferStart(s, k))] /\ s.end.segment - s.begin.segment + 2 = n + 1
  BY <1>1 DEF Buffers, BufferStart, BufferCount
<1>3. \A k \in 1 .. n : /\ BufferStart(s, k).segment = s.begin.segment + k - 1
                        /\ B[k] = Buffer(s, BufferStart(s, k))
  BY <1>2, BufferStartIs
<1>4. \A k \in 1 .. n : BufferStart(s, k) # NullPosition
  <2>1. NullPosition.segment = 0
    BY DEF NullPosition, At
  <2> QED BY <1>1, <1>3, <2>1
<1>5. s.begin # NullPosition /\ BufferStart(s, 1) = s.begin /\ First(s) = B[1]
  <2>1. BufferStart(s, 1) = s.begin /\ 1 \in 1 .. n
    BY <1>1 DEF BufferStart
  <2> QED BY <1>3, <1>4, <2>1 DEF First
<1>6. \A k \in 1 .. n :
         NextBuffer(s, BufferStart(s, k)) = IF k = n THEN NullPosition ELSE BufferStart(s, k + 1)
  <2> SUFFICES ASSUME NEW k \in 1 .. n
               PROVE  NextBuffer(s, BufferStart(s, k)) = IF k = n THEN NullPosition ELSE BufferStart(s, k + 1)
    OBVIOUS
  <2>1. BufferStart(s, k).segment = s.end.segment <=> k = n
    BY <1>1, <1>3
  <2>2. k # n => BufferStart(s, k + 1) = At(BufferStart(s, k).segment + 1, 0)
    <3>1. k + 1 # 1 /\ s.begin.segment + (k + 1) - 1 = (s.begin.segment + k - 1) + 1
      BY <1>1
    <3> QED BY <1>3, <3>1 DEF BufferStart
  <2> QED BY <2>1, <2>2 DEF NextBuffer
<1> HIDE DEF n, B
<1>7. \A k \in 1 .. n + 1 : /\ g[k].current = IF k = n + 1 THEN NullPosition ELSE BufferStart(s, k)
                            /\ g[k].buffer = IF k = 1 THEN First(s) ELSE B[k - 1]
                            /\ g[k] = [current |-> g[k].current, buffer |-> g[k].buffer]
  OBVIOUS
<1>8. g = [k \in 1 .. n + 1 |-> g[k]]
  OBVIOUS
<1> HIDE DEF g
<1>9. \A k \in 1 .. n + 1 : g[k] = IF k = 1 THEN IteratorBegin(s) ELSE Incremented(s, g[k - 1])
  <2> SUFFICES ASSUME NEW k \in 1 .. n + 1
               PROVE  g[k] = IF k = 1 THEN IteratorBegin(s) ELSE Incremented(s, g[k - 1])
    OBVIOUS
  <2>1. CASE k = 1
    <3>1. k # n + 1
      BY <1>1, <2>1
    <3> QED BY <1>5, <1>7, <2>1, <3>1 DEF IteratorBegin
  <2>2. CASE k # 1
    <3>1. k - 1 \in 1 .. n /\ k - 1 \in 1 .. n + 1 /\ k - 1 # n + 1 /\ (k - 1 = n <=> k = n + 1) /\ k - 1 + 1 = k
      BY <1>1, <2>2
    <3>2. g[k - 1].current = BufferStart(s, k - 1) /\ BufferStart(s, k - 1) # NullPosition
      BY <1>4, <1>7, <3>1
    <3>3. g[k].current = NextBuffer(s, BufferStart(s, k - 1))
      <4>1. NextBuffer(s, BufferStart(s, k - 1))
              = IF k - 1 = n THEN NullPosition ELSE BufferStart(s, (k - 1) + 1)
        BY <1>6, <3>1
      <4>2. BufferStart(s, (k - 1) + 1) = BufferStart(s, k)
        BY <3>1
      <4>3. g[k].current = IF k = n + 1 THEN NullPosition ELSE BufferStart(s, k)
        BY <1>7
      <4> QED BY <3>1, <4>1, <4>2, <4>3
    <3>4. g[k].buffer = Buffer(s, BufferStart(s, k - 1))
      BY <1>3, <1>7, <2>2, <3>1
    <3>5. Incremented(s, g[k - 1])
            = [current |-> NextBuffer(s, BufferStart(s, k - 1)), buffer |-> Buffer(s, BufferStart(s, k - 1))]
      BY <3>2 DEF Incremented
    <3> QED BY <1>7, <2>2, <3>3, <3>4, <3>5
  <2> QED BY <2>1, <2>2
<1>10. g = IteratorStep(s, g)
  BY <1>2, <1>8, <1>9 DEF IteratorStep
<1> DEFINE stop == n + 1
<1>11. /\ stop \in Nat /\ stop \in 1 .. stop /\ stop - 1 = n
       /\ s.end.segment - s.begin.segment + 2 = stop
       /\ g[stop].current = NullPosition
       /\ \A k \in 1 .. n : g[k].current # NullPosition
  <2>1. n + 1 \in 1 .. n + 1 /\ \A k \in 1 .. n : k \in 1 .. n + 1 /\ k # n + 1
    BY <1>1
  <2>2. g[n + 1].current = NullPosition
    BY <1>7, <2>1
  <2>3. ASSUME NEW k \in 1 .. n PROVE g[k].current # NullPosition
    <3>1. g[k].current = BufferStart(s, k)
      BY <1>7, <2>1, <2>3
    <3>2. BufferStart(s, k) # NullPosition
      BY <1>4, <2>3
    <3> QED BY <3>1, <3>2
  <2> QED BY <1>1, <1>2, <2>2, <2>3
<1> HIDE DEF stop
<1>12. IteratedBuffers(s) = [k \in 1 .. n |-> g[k].buffer]
  <2>1. \A k \in 1 .. stop - 1 : g[k].current # NullPosition
    BY <1>11
  <2>2. Visits(s, g, stop)
    BY <1>10, <1>11, <2>1 DEF Visits
  <2>3. IteratedBuffers(s) = [k \in 1 .. stop - 1 |-> g[k].buffer]
    BY <2>2, LoopShows
  <2> QED BY <1>11, <2>3
<1>13. \A k \in 1 .. n : g[k].buffer = B[IF k = 1 THEN 1 ELSE k - 1]
  <2> TAKE k \in 1 .. n
  <2>1. g[k].buffer = IF k = 1 THEN First(s) ELSE B[k - 1]
    <3>1. k \in 1 .. n + 1
      BY <1>1
    <3> QED BY <1>7, <3>1
  <2>2. CASE k = 1
    BY <1>5, <2>1, <2>2
  <2>3. CASE k # 1
    BY <2>1, <2>3
  <2> QED BY <2>2, <2>3
<1>14. OneBehind(s) = [k \in 1 .. n |-> B[IF k = 1 THEN 1 ELSE k - 1]]
  <2>1. DOMAIN B = 1 .. n
    BY <1>2
  <2> QED BY <1>5, <2>1 DEF OneBehind, B
<1> QED BY <1>12, <1>13, <1>14

\* What CopyDataTo and GetLength say is right, and the iterator is one behind.
Views(s) ==
    /\ CopiedData(s) = Elements(s)
    /\ GetLength(s) = Len(Elements(s))
    /\ IteratedBuffers(s) = OneBehind(s)

\* A window in one segment is one buffer.
LEMMA SingleIs ==
    ASSUME NEW s, Window(s), IsSingleSegment(s)
    PROVE  First(s) = Elements(s)
<1>1. Listed(s) /\ Placed(s, s.end) /\ Within(s, s.begin) /\ Placed(s, s.begin)
  BY WindowListed DEF Within
<1>2. PartIs(Buffer(s, s.begin), Whole(s), Place(s, s.begin), Upto(s, s.begin.segment))
  BY <1>1, BufferIs
<1>3. PartIs(Buffer(s, s.begin), Whole(s), Lo(s), Hi(s))
  BY <1>2 DEF Lo, Upto, IsSingleSegment
<1>4. PartIs(Elements(s), Whole(s), Lo(s), Hi(s))
  BY WindowIs
<1>5. First(s) = Buffer(s, s.begin)
  <2>1. s.begin # NullPosition
    <3>1. s.begin \in Positions /\ s.begin.segment \in 1 .. Len(s.segments)
      BY <1>1 DEF Placed, InList
    <3> QED BY <3>1, PositionTyped
  <2> QED BY <2>1 DEF First
<1> QED BY <1>3, <1>4, <1>5, PartEqual

\* Length and copy of a window are the flat elements' (GetLength, CopyDataTo).
LEMMA ViewsOfWindow ==
    ASSUME NEW s, Window(s)
    PROVE  Views(s)
<1>1. CopiedData(s) = Elements(s)
  <2>1. CASE IsSingleSegment(s)
    BY <2>1, SingleIs DEF CopiedData
  <2>2. CASE ~IsSingleSegment(s)
    BY <2>2, BuffersAreElements DEF CopiedData
  <2> QED BY <2>1, <2>2
<1>2. GetLength(s) = Len(Elements(s))
  BY WindowIs
<1> QED BY <1>1, <1>2, IteratorIsBehind DEF Views

\* The sequence between two positions.
LEMMA SubWindow ==
    ASSUME NEW s, Window(s), NEW p, NEW q, Placed(s, p), Placed(s, q), NotAfter(p, q)
    PROVE  /\ Window(Subsequence(s, p, q))
           /\ Whole(Subsequence(s, p, q)) = Whole(s)
           /\ Lo(Subsequence(s, p, q)) = Place(s, p) /\ Hi(Subsequence(s, p, q)) = Place(s, q)
           /\ Subsequence(s, p, q).end = q
<1> DEFINE w == Subsequence(s, p, q)
<1>1. /\ s \in [segments : Seq(Seq(Elems)), begin : Positions, end : Positions] /\ p \in Positions
      /\ q \in Positions
  BY DEF Window, Placed
<1>2. /\ w.segments = s.segments /\ w.begin = p /\ w.end = q
      /\ w \in [segments : Seq(Seq(Elems)), begin : Positions, end : Positions]
  BY <1>1 DEF Subsequence
<1> HIDE DEF w
<1>3. Placed(w, p) /\ Placed(w, q)
  BY <1>2 DEF Placed, InList
<1>4. Place(w, p) = Place(s, p) /\ Place(w, q) = Place(s, q) /\ Whole(w) = Whole(s)
  BY <1>2 DEF Place, Whole
<1>5. Window(w)
  BY <1>2, <1>3 DEF Window
<1> QED BY <1>2, <1>4, <1>5 DEF Lo, Hi, w

\* Its elements, from those of the sequence.
LEMMA SubElements ==
    ASSUME NEW s, Window(s), NEW p, NEW q, Placed(s, p), Placed(s, q), NotAfter(p, q),
           NEW from \in Nat, NEW to \in Nat, Place(s, p) = Lo(s) + from, Place(s, q) = Lo(s) + to,
           to <= Hi(s) - Lo(s)
    PROVE  /\ Elements(Subsequence(s, p, q)) = SubSeq(Elements(s), from + 1, to)
           /\ Views(Subsequence(s, p, q)) /\ from <= to
           /\ GetLength(Subsequence(s, p, q)) = to - from
<1> DEFINE w == Subsequence(s, p, q)
<1>1. Window(w) /\ Whole(w) = Whole(s) /\ Lo(w) = Place(s, p) /\ Hi(w) = Place(s, q)
  BY SubWindow
<1>2. Spans(Whole(s), Lo(s), Hi(s)) /\ Lo(s) \in Nat /\ Hi(s) \in Nat
  BY WindowSpan
<1>3. PartIs(Elements(s), Whole(s), Lo(s), Hi(s))
  BY WindowIs
<1> HIDE DEF w
<1>4. PartIs(Elements(w), Whole(w), Lo(w), Hi(w)) /\ Lo(w) <= Hi(w) /\ GetLength(w) = Hi(w) - Lo(w)
  BY <1>1, WindowIs, WindowSpan
<1>5. PartIs(Elements(w), Whole(s), Lo(s) + from, Lo(s) + to)
  BY <1>1, <1>4
<1>6. from <= to
  BY <1>1, <1>2, <1>4
<1>7. PartIs(SubSeq(Elements(s), from + 1, to), Whole(s), Lo(s) + from, Lo(s) + to)
  BY <1>2, <1>3, <1>6, PartOfPart
<1>8. Elements(w) = SubSeq(Elements(s), from + 1, to)
  BY <1>5, <1>7, PartEqual
<1>9. Views(w)
  BY <1>1, ViewsOfWindow
<1>10. GetLength(w) = to - from
  BY <1>1, <1>2, <1>4
<1> QED BY <1>6, <1>8, <1>9, <1>10 DEF w

-----------------------------------------------------------------------------
(* Seek.                                                                   *)

\* q is what Seek makes of the offset n from p: the last position of its place.
Sought(s, p, n, q) ==
    /\ Within(s, q)
    /\ Place(s, q) = Place(s, p) + n
    /\ q.segment = s.end.segment \/ q.index < Size(s, q.segment)

\* Positions that Seek finds are in the order of their places.
LEMMA SoughtOrder ==
    ASSUME NEW s, Listed(s), Placed(s, s.end), NEW p, Within(s, p), NEW o, NEW n, NEW q, Sought(s, o, n, q),
           Place(s, p) <= Place(s, q)
    PROVE  NotAfter(p, q)
<1>1. Placed(s, p) /\ Placed(s, q) /\ NotAfter(p, s.end) /\ Charted(s, p) /\ Charted(s, s.end)
  <2>1. Placed(s, p) /\ Placed(s, q) /\ NotAfter(p, s.end)
    BY DEF Within, Sought
  <2> QED BY <2>1, ChartHolds
<1>2. p.segment <= s.end.segment
  BY <1>1 DEF NotAfter, Charted
<1>3. p.segment <= q.segment \/ q.index < Size(s, q.segment)
  BY <1>2 DEF Sought
<1> QED BY <1>1, <1>3, PlaceBefore

\* The loop over segments ends up an offset further (SeekMultiple).
LEMMA SeekMultipleIs ==
    ASSUME NEW s, Listed(s), Placed(s, s.end), NEW first \in Nat, 1 <= first, first <= s.end.segment,
           NEW offset \in Nat, Edge(s, first - 1) + offset <= Hi(s)
    PROVE  Sought(s, At(first, 0), offset, SeekMultiple(s, first, offset))
<1> DEFINE e == s.end.segment
           Stops == {k \in first .. e : k = e \/ RunningIndex(s, k + 1) - RunningIndex(s, first) > offset}
           stop == Min(Stops)
           q == At(stop, offset - (RunningIndex(s, stop) - RunningIndex(s, first)))
<1>1. SeekMultiple(s, first, offset) = q
  BY DEF SeekMultiple, q
<1>2. Charted(s, s.end) /\ Edges(s)
  BY ChartHolds, EdgesHold
<1>3. /\ e \in Nat /\ Count(s) \in Nat /\ e <= Count(s) /\ Hi(s) = Edge(s, e - 1) + s.end.index
      /\ s.end.index \in Nat
  BY <1>2 DEF Charted, Hi
<1>4. \A k \in 1 .. Count(s) : RunningIndex(s, k) = Edge(s, k - 1)
  BY RunningIndexIs DEF Listed, Count, Edge
<1>5. Stops \subseteq Nat /\ e \in Stops
  BY <1>3
<1>6. stop \in Stops /\ stop \in Nat /\ \A k \in Stops : stop <= k
  <2>1. Stops # {}
    BY <1>5
  <2> HIDE DEF Stops
  <2> QED BY <1>5, <2>1, LeastOf
<1> HIDE DEF stop, q
<1>7. stop \in first .. e /\ 1 <= stop /\ stop <= Count(s)
  BY <1>3, <1>6
<1>8. RunningIndex(s, first) = Edge(s, first - 1) /\ RunningIndex(s, stop) = Edge(s, stop - 1)
  <2>1. first \in 1 .. Count(s) /\ stop \in 1 .. Count(s)
    BY <1>3, <1>7
  <2> QED BY <1>4, <2>1
<1>9. /\ Edge(s, first - 1) \in Nat /\ Edge(s, stop - 1) \in Nat /\ Edge(s, first - 1) <= Edge(s, stop - 1)
      /\ Size(s, stop) \in Nat /\ Edge(s, stop) = Edge(s, stop - 1) + Size(s, stop) /\ Edge(s, stop) \in Nat
  <2>1. first - 1 \in Nat /\ stop - 1 \in Nat /\ first - 1 <= stop - 1 /\ stop - 1 <= Count(s)
    BY <1>3, <1>7
  <2>2. Edge(s, first - 1) \in Nat /\ Edge(s, stop - 1) \in Nat /\ Edge(s, first - 1) <= Edge(s, stop - 1)
    BY <2>1, EdgeOrder
  <2>3. stop \in 1 .. Count(s)
    BY <1>3, <1>7
  <2> QED BY <1>2, <2>2, <2>3 DEF Edges
<1>10. Edge(s, stop - 1) - Edge(s, first - 1) <= offset
  <2>1. CASE stop = first
    BY <1>9, <2>1
  <2>2. CASE stop # first
    <3>0. stop - 1 \notin Stops
      <4>1. ~(stop <= stop - 1)
        BY <1>6
      <4> HIDE DEF Stops
      <4> QED BY <1>6, <4>1
    <3>1. stop - 1 \in first .. e /\ stop - 1 # e /\ stop - 1 + 1 = stop
      BY <1>3, <1>6, <1>7, <2>2
    <3>2. ~(RunningIndex(s, stop) - RunningIndex(s, first) > offset)
      BY <3>0, <3>1
    <3> QED BY <1>8, <1>9, <3>2
  <2> QED BY <2>1, <2>2
<1>11. stop = e \/ Edge(s, stop) - Edge(s, first - 1) > offset
  <2> SUFFICES ASSUME stop # e PROVE Edge(s, stop) - Edge(s, first - 1) > offset
    OBVIOUS
  <2>1. RunningIndex(s, stop + 1) - RunningIndex(s, first) > offset
    BY <1>6
  <2> HIDE DEF Stops
  <2>2. PICK m \in 1 .. Count(s) : m = stop + 1 /\ m - 1 = stop
    BY <1>3, <1>7
  <2>3. RunningIndex(s, stop + 1) = Edge(s, stop)
    BY <1>4, <2>2
  <2> QED BY <1>8, <2>1, <2>3
<1> DEFINE index == offset - (Edge(s, stop - 1) - Edge(s, first - 1))
<1>12. q = At(stop, index)
  BY <1>8 DEF q
<1> HIDE DEF Stops
<1>13. index \in Nat /\ Edge(s, stop - 1) + index = Edge(s, first - 1) + offset
  BY <1>9, <1>10
<1>14. (stop = e /\ index <= s.end.index /\ index <= Size(s, stop)) \/ (stop < e /\ index < Size(s, stop))
  <2>1. CASE stop = e
    <3>1. s.end.index <= Size(s, e)
      BY <1>2 DEF Charted
    <3>2. index <= s.end.index
      BY <1>3, <1>9, <1>13, <2>1
    <3> QED BY <1>3, <1>9, <1>13, <2>1, <3>1, <3>2
  <2>2. CASE stop # e
    <3>1. Edge(s, stop) - Edge(s, first - 1) > offset /\ stop < e
      BY <1>3, <1>6, <1>7, <1>11, <2>2
    <3>2. index < Size(s, stop)
      BY <1>9, <3>1
    <3> QED BY <3>1, <3>2
  <2> QED BY <2>1, <2>2
<1> HIDE DEF index
<1>15. q.segment = stop /\ q.index = index /\ q \in Positions
  BY <1>7, <1>12, <1>13, AtIs
<1>16. Placed(s, q)
  <2>1. stop \in 1 .. Count(s) /\ index \in 0 .. Size(s, stop)
    BY <1>3, <1>7, <1>9, <1>13, <1>14
  <2> QED BY <1>15, <2>1 DEF Placed, InList, Count, Size
<1>17. NotAfter(q, s.end)
  BY <1>14, <1>15 DEF NotAfter
<1>18. Place(s, q) = Edge(s, first - 1) + offset
  BY <1>13, <1>15 DEF Place, Edge
<1>19. Place(s, At(first, 0)) = Edge(s, first - 1)
  BY StartWithin
<1> QED BY <1>1, <1>14, <1>15, <1>16, <1>17, <1>18, <1>19 DEF Sought, Within

\* Seek finds the position that many elements further on.
LEMMA SeekIs ==
    ASSUME NEW s, Listed(s), Placed(s, s.end), NEW p, Within(s, p), NEW n \in Nat, Place(s, p) + n <= Hi(s)
    PROVE  Sought(s, p, n, Seek(s, p, n))
<1> DEFINE e == s.end.segment
           k == p.segment
           q == At(k, p.index + n)
           length == Size(s, k) - p.index
<1>1. Placed(s, p) /\ NotAfter(p, s.end) /\ Charted(s, p) /\ Charted(s, s.end)
  BY ChartHolds DEF Within
<1>2. /\ Seek(s, p, n) = IF k = e \/ length > n THEN q ELSE SeekMultiple(s, k + 1, n - length)
  BY DEF Seek, Size
<1>3. /\ k \in Nat /\ 1 <= k /\ k <= Count(s) /\ k <= e /\ e \in Nat /\ p.index \in Nat
      /\ Size(s, k) \in Nat /\ p.index <= Size(s, k)
      /\ Edge(s, k - 1) \in Nat /\ Edge(s, k) \in Nat /\ Edge(s, k) = Edge(s, k - 1) + Size(s, k)
      /\ Place(s, p) = Edge(s, k - 1) + p.index
  <2>1. k <= e
    BY <1>1 DEF NotAfter, Charted
  <2> QED BY <1>1, <2>1 DEF Charted
<1>4. s.end.index \in Nat /\ s.end.index <= Size(s, e) /\ Hi(s) = Edge(s, e - 1) + s.end.index
  BY <1>1 DEF Charted, Hi
<1>5. CASE k = e \/ length > n
  <2>1. q.segment = k /\ q.index = p.index + n /\ q \in Positions
    BY <1>3, AtIs
  <2>2. p.index + n \in Nat /\ (k = e => p.index + n <= s.end.index) /\ (k # e => p.index + n < Size(s, k) /\ k < e)
    <3>1. p.index + n \in Nat
      BY <1>3
    <3>2. k = e => p.index + n <= s.end.index
      BY <1>3, <1>4
    <3>3. k # e => p.index + n < Size(s, k) /\ k < e
      BY <1>3, <1>5
    <3> QED BY <3>1, <3>2, <3>3
  <2> HIDE DEF q
  <2>3. InList(s, q)
    <3>1. k \in 1 .. Count(s) /\ p.index + n \in 0 .. Size(s, k)
      BY <1>3, <1>4, <2>2
    <3> QED BY <2>1, <3>1 DEF InList, Count, Size
  <2>4. NotAfter(q, s.end)
    BY <1>3, <2>1, <2>2 DEF NotAfter
  <2>5. Place(s, q) = Place(s, p) + n
    <3>1. Place(s, q) = Edge(s, k - 1) + (p.index + n)
      BY <2>1 DEF Place, Edge
    <3> QED BY <1>3, <3>1
  <2>6. Seek(s, p, n) = q
    BY <1>2, <1>5
  <2> QED BY <2>1, <2>2, <2>3, <2>4, <2>5, <2>6 DEF Sought, Within, Placed
<1>6. CASE ~(k = e \/ length > n)
  <2> HIDE DEF q
  <2>1. PICK m \in Nat, r \in Nat : m = k + 1 /\ r = n - length
    BY <1>3, <1>6
  <2>2. 1 <= m /\ m <= s.end.segment /\ m - 1 = k
    BY <1>3, <1>6, <2>1
  <2>3. Edge(s, m - 1) + r = Place(s, p) + n
    BY <1>3, <2>1, <2>2
  <2>4. Edge(s, m - 1) + r <= Hi(s)
    BY <2>3
  <2>5. Seek(s, p, n) = SeekMultiple(s, m, r)
    BY <1>2, <1>6, <2>1
  <2> HIDE DEF length
  <2>6. Sought(s, At(m, 0), r, SeekMultiple(s, m, r))
    BY <2>2, <2>4, SeekMultipleIs
  <2>7. Place(s, At(m, 0)) = Edge(s, m - 1)
    BY <2>2, StartWithin
  <2> QED BY <2>3, <2>5, <2>6, <2>7 DEF Sought
<1> QED BY <1>5, <1>6

-----------------------------------------------------------------------------
(* The reader in its buffer.                                               *)

NullSequence(s) ==
    /\ s \in [segments : Seq(Seq(Elems)), begin : Positions, end : Positions]
    /\ s.begin = NullPosition /\ s.end = NullPosition

Total(s) == Len(Elements(s))

\* q is in the buffer its members name, behind the first at elements of s.
InBuffer(s, q, at) ==
    /\ q \in Readers /\ at \in Nat
    /\ q.next = NextBuffer(s, q.current)
    /\ q.index <= Len(q.buffer)
    /\ \/ /\ Window(s) /\ Within(s, q.current) /\ s.begin.segment <= q.current.segment
          /\ q.buffer = Buffer(s, q.current)
          /\ Place(s, q.current) + q.index = Lo(s) + at
       \/ /\ NullSequence(s) /\ q.current = NullPosition
          /\ q.buffer = <<>> /\ at = 0

\* It also knows whether there is something left, and is at the end if there is not.
Reads(s, q, at) ==
    /\ InBuffer(s, q, at)
    /\ q.more = (q.index < Len(q.buffer))
    /\ q.more \/ at = Total(s)

\* The null sequence has no elements, in any view.
LEMMA NullIs ==
    ASSUME NEW s, NullSequence(s)
    PROVE  Elements(s) = <<>> /\ Total(s) = 0 /\ GetLength(s) = 0 /\ IsSingleSegment(s) /\ First(s) = <<>> /\ Views(s)
           /\ FlatIndex(s, s.begin) = 0
<1>1. s.begin = NullPosition /\ s.end = NullPosition
  BY DEF NullSequence
<1>2. FlatIndex(s, s.begin) = 0 /\ FlatIndex(s, s.end) = 0
  BY <1>1 DEF FlatIndex
<1>3. Elements(s) = <<>>
  <2>1. Elements(s) = SubSeq(FlattenSeq(s.segments), 1, 0)
    BY <1>2 DEF Elements
  <2> QED BY <2>1, SubSeqEmpty
<1>4. Total(s) = 0
  BY <1>3, EmptySeq DEF Total
<1>5. IsSingleSegment(s) /\ First(s) = <<>> /\ GetLength(s) = 0
  BY <1>1 DEF IsSingleSegment, First, GetLength, NullPosition, At
<1>6. CopiedData(s) = <<>> /\ IteratedBuffers(s) = <<>> /\ OneBehind(s) = <<>>
  <2> DEFINE g == [k \in 1 .. 2 |-> IteratorBegin(s)]
  <2>1. s.end.segment - s.begin.segment + 2 = 2
    BY <1>1 DEF NullPosition, At
  <2>2. IteratorBegin(s).current = NullPosition /\ Incremented(s, IteratorBegin(s)) = IteratorBegin(s)
    BY <1>1 DEF IteratorBegin, Incremented
  <2>3. \A k \in 1 .. 2 : g[k] = IF k = 1 THEN IteratorBegin(s) ELSE Incremented(s, g[k - 1])
    BY <2>2
  <2>4. g = [k \in 1 .. 2 |-> g[k]] /\ g[1].current = NullPosition
    BY <2>2
  <2> HIDE DEF g
  <2>5. Visits(s, g, 1)
    BY <2>1, <2>3, <2>4 DEF Visits, IteratorStep
  <2>6. IteratedBuffers(s) = [k \in 1 .. 1 - 1 |-> g[k].buffer]
    BY <2>5, LoopShows
  <2>7. [k \in 1 .. 1 - 1 |-> g[k].buffer] = <<>>
    OBVIOUS
  <2> QED BY <1>1, <1>5, <2>6, <2>7 DEF CopiedData, OneBehind
<1>7. FlattenSeq(<<>>) = <<>>
  BY EmptySeq DEF FlattenSeq
<1> QED BY <1>2, <1>3, <1>4, <1>5, <1>6, <1>7 DEF Views, Total

\* The numbers and the elements of what is left of the buffer.
Sees(s, q, at) ==
    /\ at \in Nat /\ Total(s) \in Nat /\ q.index \in Nat /\ q.consumed \in Nat
    /\ q.buffer \in Seq(Elems) /\ Len(q.buffer) \in Nat /\ q.index <= Len(q.buffer)
    /\ UnreadBuffer(q) \in Seq(Elems) /\ Len(UnreadBuffer(q)) \in Nat
    /\ Len(UnreadBuffer(q)) = Len(q.buffer) - q.index
    /\ at + Len(UnreadBuffer(q)) <= Total(s)
    /\ \A i \in 1 .. Len(UnreadBuffer(q)) : UnreadBuffer(q)[i] = Elements(s)[at + i]

\* A reader in a buffer sees the elements that follow its place, some or none.
LEMMA SeesIs ==
    ASSUME NEW s, NEW q, NEW at, InBuffer(s, q, at)
    PROVE  Sees(s, q, at)
<1> DEFINE u == UnreadBuffer(q)
<1>1. q \in Readers /\ at \in Nat /\ q.index <= Len(q.buffer)
  BY DEF InBuffer
<1>2. q.index \in Nat /\ q.consumed \in Nat /\ q.buffer \in Seq(Elems)
  BY <1>1 DEF Readers
<1>3. Len(q.buffer) \in Nat
  BY <1>2
<1>4. PartIs(u, q.buffer, q.index, Len(q.buffer))
  <2>1. Spans(q.buffer, q.index, Len(q.buffer))
    BY <1>1, <1>2, <1>3 DEF Spans
  <2> QED BY <2>1, PartOf DEF UnreadBuffer, Slice
<1>5. /\ u \in Seq(Elems) /\ Len(u) \in Nat /\ Len(u) = Len(q.buffer) - q.index
      /\ \A i \in 1 .. Len(u) : u[i] = q.buffer[q.index + i]
  BY <1>4 DEF PartIs
<1> HIDE DEF u
<1>6. CASE Window(s)
  <2>1. /\ Within(s, q.current) /\ q.buffer = Buffer(s, q.current)
        /\ Place(s, q.current) + q.index = Lo(s) + at
    <3>1. ~NullSequence(s)
      <4>1. s.begin.segment \in 1 .. Len(s.segments) /\ s.begin \in Positions
        BY <1>6 DEF Window, Placed, InList
      <4> QED BY <4>1, PositionTyped DEF NullSequence
    <3> QED BY <3>1 DEF InBuffer
  <2>2. Listed(s) /\ Placed(s, s.end) /\ Placed(s, q.current)
    BY <1>6, <2>1, WindowListed DEF Within
  <2> DEFINE k == q.current.segment
  <2>3. /\ Spans(Whole(s), Place(s, q.current), Upto(s, k))
        /\ PartIs(q.buffer, Whole(s), Place(s, q.current), Upto(s, k))
    BY <2>1, <2>2, BufferIs
  <2>4. /\ PartIs(Elements(s), Whole(s), Lo(s), Hi(s)) /\ Total(s) = Hi(s) - Lo(s) /\ Total(s) \in Nat
        /\ Lo(s) \in Nat /\ Hi(s) \in Nat
    BY <1>6, WindowIs, WindowSpan DEF Total
  <2>5. Upto(s, k) <= Hi(s)
    <3>1. CASE k = s.end.segment
      BY <2>4, <3>1 DEF Upto
    <3>2. CASE k # s.end.segment
      <4>1. Charted(s, s.end) /\ Charted(s, q.current) /\ NotAfter(q.current, s.end)
        BY <2>1, <2>2, ChartHolds DEF Within
      <4>2. k \in Nat /\ s.end.segment - 1 \in Nat /\ k <= s.end.segment - 1 /\ s.end.segment - 1 <= Count(s)
        BY <3>2, <4>1 DEF Charted, NotAfter
      <4>3. Edge(s, k) \in Nat /\ Edge(s, k) <= Edge(s, s.end.segment - 1)
        BY <2>2, <4>2, EdgeOrder
      <4>4. Edge(s, s.end.segment - 1) \in Nat /\ Edge(s, s.end.segment - 1) <= Hi(s)
        BY <4>1 DEF Charted, Hi
      <4> QED BY <2>4, <3>2, <4>3, <4>4 DEF Upto
    <3> QED BY <3>1, <3>2
  <2>6. Place(s, q.current) \in Nat /\ Upto(s, k) \in Nat
    BY <2>3 DEF Spans
  <2>7. Len(q.buffer) = Upto(s, k) - Place(s, q.current) /\ \A i \in 1 .. Len(q.buffer) : q.buffer[i] = Whole(s)[Place(s, q.current) + i]
    BY <2>3 DEF PartIs
  <2> HIDE DEF k
  <2>8. at + Len(u) <= Total(s)
    <3>1. PICK lo \in Nat, hi \in Nat, to \in Nat, from \in Nat :
                 lo = Lo(s) /\ hi = Hi(s) /\ to = Upto(s, k) /\ from = Place(s, q.current)
      BY <2>4, <2>6
    <3>2. Len(u) = to - from - q.index
      BY <1>5, <2>7, <3>1
    <3>3. from + q.index = lo + at /\ to <= hi /\ Total(s) = hi - lo
      BY <2>1, <2>4, <2>5, <3>1
    <3> QED BY <1>1, <1>2, <3>2, <3>3
  <2>9. ASSUME NEW i \in 1 .. Len(u) PROVE u[i] = Elements(s)[at + i]
    <3>1. i \in Nat /\ 1 <= i /\ i <= Len(u)
      BY <1>5
    <3>2. q.index + i \in 1 .. Len(q.buffer) /\ Place(s, q.current) + (q.index + i) = Lo(s) + (at + i)
      <4>1. Len(u) = Len(q.buffer) - q.index /\ Len(u) \in Nat
        BY <1>5
      <4>2. q.index + i \in 1 .. Len(q.buffer)
        BY <1>1, <1>2, <1>3, <3>1, <4>1
      <4>3. Place(s, q.current) + (q.index + i) = Lo(s) + (at + i)
        <5>1. Place(s, q.current) + q.index = Lo(s) + at
          BY <2>1
        <5>2. Place(s, q.current) \in Nat /\ Lo(s) \in Nat /\ at \in Nat /\ q.index \in Nat /\ i \in Nat
          BY <1>1, <1>2, <2>4, <2>6, <3>1
        <5> QED BY <5>1, <5>2
      <4> QED BY <4>2, <4>3
    <3>3. u[i] = Whole(s)[Place(s, q.current) + (q.index + i)]
      BY <1>5, <2>7, <3>2
    <3>4. at + i \in 1 .. Hi(s) - Lo(s)
      BY <1>1, <1>5, <2>4, <2>8, <3>1
    <3>5. Elements(s)[at + i] = Whole(s)[Lo(s) + (at + i)]
      BY <2>4, <3>4 DEF PartIs
    <3> QED BY <3>2, <3>3, <3>5
  <2> QED BY <1>1, <1>2, <1>3, <1>5, <2>4, <2>8, <2>9 DEF Sees, u
<1>7. CASE NullSequence(s) /\ ~Window(s)
  <2>1. at = 0 /\ q.buffer = <<>> /\ Total(s) = 0
    BY <1>7, NullIs DEF InBuffer
  <2>2. Len(q.buffer) = 0
    BY <2>1, EmptySeq
  <2>3. Len(u) = 0
    BY <1>1, <1>2, <1>5, <2>2
  <2> QED BY <1>1, <1>2, <1>3, <1>5, <2>1, <2>3 DEF Sees, u
<1> QED BY <1>6, <1>7 DEF InBuffer

-----------------------------------------------------------------------------
(* MoveToNextBuffer.                                                       *)

Rest(s, first) == {At(k, 0) : k \in first .. s.end.segment}

Filled(s, first) == {p \in Rest(s, first) : Buffer(s, p) # <<>>}

StopAt(s, first) ==
    IF Filled(s, first) = {} THEN At(s.end.segment, 0)
    ELSE CHOOSE p \in Filled(s, first) : \A q \in Filled(s, first) : p.segment <= q.segment

\* The segment k is the first from first on with something in it, or the last.
StopsIn(s, first, k) ==
    /\ StopAt(s, first) = At(k, 0)
    /\ \A j \in first .. k - 1 : Buffer(s, At(j, 0)) = <<>>
    /\ (Filled(s, first) # {}) = (Buffer(s, At(k, 0)) # <<>>)
    /\ Filled(s, first) = {} => k = s.end.segment

\* MoveToNextBuffer stops somewhere: in the first segment with data, or in the last.
LEMMA StopIs ==
    ASSUME NEW s, s.end.segment \in Nat, NEW first \in Nat, 1 <= first, first <= s.end.segment
    PROVE  \E k \in first .. s.end.segment : StopsIn(s, first, k)
<1> DEFINE e == s.end.segment
           K == {k \in first .. e : Buffer(s, At(k, 0)) # <<>>}
<1>1. \A k : At(k, 0).segment = k
  BY AtIs
<1>2. \A p \in Filled(s, first) : \E k \in K : p = At(k, 0)
  BY DEF Filled, Rest
<1>3. \A k \in K : At(k, 0) \in Filled(s, first)
  BY DEF Filled, Rest
<1>4. CASE K = {}
  <2>1. Filled(s, first) = {}
    BY <1>2, <1>4
  <2>2. \A k \in first .. e : Buffer(s, At(k, 0)) = <<>>
    BY <1>4
  <2>3. e \in first .. e /\ \A j \in first .. e - 1 : j \in first .. e
    OBVIOUS
  <2>4. StopsIn(s, first, e)
    BY <2>1, <2>2, <2>3 DEF StopsIn, StopAt
  <2> QED BY <2>3, <2>4
<1>5. CASE K # {}
  <2> DEFINE m == Min(K)
  <2>1. K \subseteq Nat
    OBVIOUS
  <2> HIDE DEF K
  <2>2. m \in K /\ m \in Nat /\ \A k \in K : m <= k
    BY <1>5, <2>1, LeastOf
  <2> HIDE DEF m
  <2>3. At(m, 0) \in Filled(s, first) /\ \A q \in Filled(s, first) : At(m, 0).segment <= q.segment
    BY <1>1, <1>2, <1>3, <2>2
  <2>4. StopAt(s, first) \in Filled(s, first) /\ \A q \in Filled(s, first) : StopAt(s, first).segment <= q.segment
    BY <2>3 DEF StopAt
  <2>5. PICK k \in K : StopAt(s, first) = At(k, 0)
    BY <1>2, <2>4
  <2>6. k = m
    <3>1. k \in Nat /\ m <= k
      BY <2>1, <2>2
    <3>2. k <= m
      BY <1>1, <2>3, <2>4, <2>5
    <3> QED BY <2>2, <3>1, <3>2
  <2>7. m \in first .. e /\ Buffer(s, At(m, 0)) # <<>>
    BY <2>2 DEF K
  <2>8. ASSUME NEW j \in first .. m - 1 PROVE Buffer(s, At(j, 0)) = <<>>
    <3>1. j \in first .. e /\ ~(m <= j)
      BY <2>2, <2>7
    <3>2. j \notin K
      BY <2>2, <3>1
    <3> QED BY <3>1, <3>2 DEF K
  <2>9. (Filled(s, first) # {}) = (Buffer(s, At(m, 0)) # <<>>) /\ Filled(s, first) # {}
    BY <2>3, <2>7
  <2>10. StopsIn(s, first, m)
    BY <2>5, <2>6, <2>8, <2>9 DEF StopsIn
  <2> QED BY <2>7, <2>10
<1> QED BY <1>4, <1>5

\* MoveToNextBuffer, in these terms.
Onward(s, r) ==
    LET stop == StopAt(s, r.next.segment)
    IN  [r EXCEPT !.current = stop,
                  !.next = NextBuffer(s, stop),
                  !.buffer = Buffer(s, stop),
                  !.index = 0,
                  !.more = Filled(s, r.next.segment) # {}]

MovedOn(s, r) ==
    IF IsSingleSegment(s) \/ r.next = NullPosition THEN [r EXCEPT !.more = FALSE] ELSE Onward(s, r)

LEMMA MoveIsMovedOn ==
    ASSUME NEW r
    PROVE  MoveToNextBuffer(r) = MovedOn(sequence, r)
BY DEF MoveToNextBuffer, MovedOn, Onward, StopAt, Filled, Rest

\* The position NextBuffer returns.
LEMMA NextIs ==
    ASSUME NEW s, NEW p, p.segment \in Nat
    PROVE  /\ NextBuffer(s, p) \in Positions
           /\ p.segment = s.end.segment => NextBuffer(s, p) = NullPosition
           /\ p.segment # s.end.segment => NextBuffer(s, p) # NullPosition /\ NextBuffer(s, p).segment = p.segment + 1
<1> DEFINE k == p.segment + 1
<1>1. k \in Nat \ {0}
  OBVIOUS
<1> HIDE DEF k
<1>2. At(k, 0) \in Positions /\ At(k, 0).segment = k
  BY <1>1, AtIs
<1>3. At(k, 0) # NullPosition
  BY <1>1, <1>2, PositionTyped
<1>4. NullPosition \in Positions
  BY DEF Positions
<1> QED BY <1>2, <1>3, <1>4 DEF NextBuffer, k

Proper(s) == Window(s) \/ NullSequence(s)

\* A window is not the null sequence.
LEMMA NotBoth ==
    ASSUME NEW s, Window(s)
    PROVE  ~NullSequence(s) /\ s.end.segment \in Nat /\ 1 <= s.end.segment /\ s.begin.segment \in Nat
<1>1. /\ s.begin \in Positions /\ s.begin.segment \in 1 .. Len(s.segments)
      /\ s.end \in Positions /\ s.end.segment \in 1 .. Len(s.segments)
  BY DEF Window, Placed, InList
<1>2. s.begin # NullPosition /\ s.end.segment \in Nat /\ s.begin.segment \in Nat
  BY <1>1, PositionTyped
<1> QED BY <1>1, <1>2 DEF NullSequence

\* The new members, from the segment.
OnwardIn(s, r, k, more) ==
    [r EXCEPT !.current = At(k, 0), !.next = NextBuffer(s, At(k, 0)), !.buffer = Buffer(s, At(k, 0)),
              !.index = 0, !.more = more]

\* A reader moved to another segment is a reader.
LEMMA OnwardTyped ==
    ASSUME NEW s, Window(s), NEW r \in Readers, NEW k \in Nat, 1 <= k, k <= s.end.segment, NEW more \in BOOLEAN
    PROVE  OnwardIn(s, r, k, more) \in Readers
<1>1. Listed(s) /\ Placed(s, s.end)
  BY WindowListed DEF Within
<1>2. Within(s, At(k, 0)) /\ At(k, 0).segment = k
  BY <1>1, StartWithin
<1>3. At(k, 0) \in Positions
  BY AtIs
<1>4. NextBuffer(s, At(k, 0)) \in Positions
  BY <1>2, NextIs
<1>5. PartIs(Buffer(s, At(k, 0)), Whole(s), Place(s, At(k, 0)), Upto(s, At(k, 0).segment))
  BY <1>1, <1>2, BufferIs
<1>6. Buffer(s, At(k, 0)) \in Seq(Elems)
  BY <1>5 DEF PartIs
<1> DEFINE p == At(k, 0)
           n == NextBuffer(s, p)
           b == Buffer(s, p)
<1> HIDE DEF p, n, b
<1>7. [r EXCEPT !.current = p, !.next = n, !.buffer = b, !.index = 0, !.more = more] \in Readers
  BY <1>3, <1>4, <1>6 DEF Readers, p, n, b
<1> QED BY <1>7 DEF OnwardIn, p, n, b

\* Whatever the reader, the next one is one.
LEMMA MoveTyped ==
    ASSUME NEW s, Proper(s), NEW r \in Readers
    PROVE  MovedOn(s, r) \in Readers
<1>1. CASE IsSingleSegment(s) \/ r.next = NullPosition
  <2>1. [r EXCEPT !.more = FALSE] \in Readers
    BY DEF Readers
  <2> QED BY <1>1, <2>1 DEF MovedOn
<1>2. CASE ~(IsSingleSegment(s) \/ r.next = NullPosition)
  <2> DEFINE first == r.next.segment
  <2>1. Window(s)
    BY <1>2, NullIs DEF Proper
  <2>2. s.end.segment \in Nat /\ 1 <= s.end.segment
    BY <2>1, NotBoth
  <2>3. first \in Nat /\ 1 <= first
    <3>1. r.next \in Positions
      BY DEF Readers
    <3> QED BY <1>2, <3>1, PositionTyped
  <2> HIDE DEF first
  <2>4. \E k \in Nat : 1 <= k /\ k <= s.end.segment /\ StopAt(s, first) = At(k, 0)
    <3>1. CASE first <= s.end.segment
      <4>1. PICK k \in first .. s.end.segment : StopsIn(s, first, k)
        BY <2>2, <2>3, <3>1, StopIs
      <4> QED BY <2>2, <2>3, <4>1 DEF StopsIn
    <3>2. CASE ~(first <= s.end.segment)
      <4>1. \A k \in first .. s.end.segment : FALSE
        BY <2>2, <2>3, <3>2
      <4>2. Filled(s, first) = {}
        BY <4>1 DEF Filled, Rest
      <4> QED BY <2>2, <4>2 DEF StopAt
    <3> QED BY <3>1, <3>2
  <2>5. PICK k \in Nat : 1 <= k /\ k <= s.end.segment /\ StopAt(s, first) = At(k, 0)
    BY <2>4
  <2> DEFINE more == Filled(s, first) # {}
  <2>6. more \in BOOLEAN
    OBVIOUS
  <2>7. Onward(s, r) = OnwardIn(s, r, k, more)
    BY <2>5 DEF Onward, OnwardIn, first
  <2> HIDE DEF more
  <2>8. OnwardIn(s, r, k, more) \in Readers
    BY <2>1, <2>5, <2>6, OnwardTyped
  <2> QED BY <1>2, <2>7, <2>8 DEF MovedOn
<1> QED BY <1>1, <1>2

\* There is nothing between the segments.
LEMMA SkipsNothing ==
    ASSUME NEW s, Window(s), NEW first \in Nat, 1 <= first, first <= s.end.segment,
           NEW k \in first .. s.end.segment, StopsIn(s, first, k)
    PROVE  Edge(s, k - 1) = Edge(s, first - 1)
<1>1. Listed(s) /\ Placed(s, s.end)
  BY WindowListed DEF Within
<1>2. s.end.segment \in Nat
  BY NotBoth
<1> DEFINE S == {i \in 0 .. k - first : Edge(s, first + i - 1) = Edge(s, first - 1)}
<1>3. 0 \in S
  BY <1>2
<1>4. ASSUME NEW i \in 0 .. k - first - 1, i \in S PROVE i + 1 \in S
  <2>1. PICK j \in Nat : j = first + i
    BY <1>2
  <2>2. /\ 1 <= j /\ j < k /\ j < s.end.segment /\ j \in first .. k - 1 /\ first + (i + 1) - 1 = j
        /\ i + 1 \in 0 .. k - first
    BY <1>2, <2>1
  <2>3. Within(s, At(j, 0)) /\ At(j, 0).segment = j /\ Place(s, At(j, 0)) = Edge(s, j - 1)
    BY <1>1, <1>2, <2>2, StartWithin
  <2>4. /\ Spans(Whole(s), Edge(s, j - 1), Upto(s, j))
        /\ PartIs(Buffer(s, At(j, 0)), Whole(s), Edge(s, j - 1), Upto(s, j))
    BY <1>1, <2>3, BufferIs
  <2>5. Buffer(s, At(j, 0)) = <<>>
    BY <2>2 DEF StopsIn
  <2>6. Edge(s, j - 1) = Upto(s, j)
    BY <2>4, <2>5, PartLength
  <2>7. Upto(s, j) = Edge(s, j)
    BY <1>2, <2>2 DEF Upto
  <2>8. Edge(s, j - 1) = Edge(s, first - 1)
    BY <1>4, <2>1
  <2> QED BY <2>2, <2>6, <2>7, <2>8
<1> HIDE DEF S
<1>5. k - first \in Nat
  BY <1>2
<1>6. \A i \in 0 .. k - first : i \in S
  BY <1>3, <1>4, <1>5, Upward
<1>7. k - first \in S /\ first + (k - first) - 1 = k - 1
  BY <1>2, <1>5, <1>6
<1> QED BY <1>7 DEF S

\* From the end of a buffer the reader comes to the next element, or to the end of all.
LEMMA MoveIs ==
    ASSUME NEW s, NEW q, NEW at, InBuffer(s, q, at), q.index = Len(q.buffer)
    PROVE  /\ Reads(s, MovedOn(s, q), at) /\ MovedOn(s, q).consumed = q.consumed
           /\ MovedOn(s, q).more => MovedOn(s, q).index = 0
<1>1. q \in Readers /\ at \in Nat /\ q.next = NextBuffer(s, q.current) /\ Sees(s, q, at)
  BY SeesIs DEF InBuffer
<1>2. q.index \in Nat /\ Len(q.buffer) \in Nat
  BY <1>1 DEF Sees
<1> DEFINE still == [q EXCEPT !.more = FALSE]
<1>3. /\ still.more = FALSE /\ still.index = q.index /\ still.buffer = q.buffer /\ still.current = q.current
      /\ still.next = q.next /\ still.consumed = q.consumed /\ still \in Readers
  BY <1>1 DEF Readers
<1>4. ASSUME at = Total(s), MovedOn(s, q) = still
      PROVE  Reads(s, MovedOn(s, q), at) /\ MovedOn(s, q).consumed = q.consumed /\ ~MovedOn(s, q).more
  <2> HIDE DEF still
  <2>1. InBuffer(s, still, at)
    BY <1>3 DEF InBuffer
  <2>2. ~(still.index < Len(still.buffer))
    BY <1>2, <1>3
  <2>3. Reads(s, still, at)
    <3>1. still.more = (still.index < Len(still.buffer))
      <4>1. (still.index < Len(still.buffer)) = FALSE
        BY <2>2
      <4>2. still.more = FALSE
        BY <1>3
      <4> QED BY <4>1, <4>2, Zenon
    <3>2. at = Total(s)
      BY <1>4
    <3> QED BY <2>1, <3>1, <3>2, Zenon DEF Reads
  <2> QED BY <1>3, <1>4, <2>3
<1>5. CASE NullSequence(s)
  <2>1. ~Window(s)
    BY <1>5, NotBoth
  <2>2. at = 0 /\ Total(s) = 0 /\ IsSingleSegment(s)
    BY <1>5, <2>1, NullIs DEF InBuffer
  <2>3. MovedOn(s, q) = still
    BY <2>2 DEF MovedOn
  <2> HIDE DEF still
  <2> QED BY <1>4, <2>2, <2>3
<1>6. CASE Window(s)
  <2>1. /\ Within(s, q.current) /\ s.begin.segment <= q.current.segment /\ q.buffer = Buffer(s, q.current)
        /\ Place(s, q.current) + q.index = Lo(s) + at
    BY <1>6, NotBoth DEF InBuffer
  <2>2. Listed(s) /\ Placed(s, s.end) /\ Placed(s, q.current) /\ NotAfter(q.current, s.end)
    BY <1>6, <2>1, WindowListed DEF Within
  <2> DEFINE c == q.current.segment
  <2>3. Upto(s, c) = Lo(s) + at
    <3>1. /\ Spans(Whole(s), Place(s, q.current), Upto(s, c))
          /\ PartIs(q.buffer, Whole(s), Place(s, q.current), Upto(s, c))
      BY <2>1, <2>2, BufferIs
    <3>2. Len(q.buffer) = Upto(s, c) - Place(s, q.current) /\ Place(s, q.current) \in Nat /\ Upto(s, c) \in Nat
      BY <3>1 DEF Spans, PartIs
    <3> HIDE DEF c
    <3> QED BY <1>2, <2>1, <3>2
  <2>4. Lo(s) \in Nat /\ Hi(s) \in Nat /\ Total(s) = Hi(s) - Lo(s)
    BY <1>6, WindowSpan, WindowIs DEF Total
  <2>5. /\ c \in Nat /\ 1 <= c /\ s.end.segment \in Nat /\ c <= s.end.segment
        /\ s.begin.segment <= c /\ s.begin.segment \in Nat
    <3>1. Charted(s, q.current) /\ Charted(s, s.end)
      BY <2>2, ChartHolds
    <3>2. c \in Nat /\ 1 <= c /\ s.end.segment \in Nat
      BY <3>1 DEF Charted
    <3>3. c <= s.end.segment
      BY <2>2, <3>2 DEF NotAfter
    <3>4. s.begin.segment <= c /\ s.begin.segment \in Nat
      BY <1>6, <2>1, NotBoth
    <3> HIDE DEF c
    <3> QED BY <3>2, <3>3, <3>4
  <2>6. CASE IsSingleSegment(s) \/ q.next = NullPosition
    <3>1. c = s.end.segment
      <4>1. CASE IsSingleSegment(s)
        BY <2>5, <4>1 DEF IsSingleSegment
      <4>2. CASE q.next = NullPosition
        BY <1>1, <2>5, <4>2, NextIs
      <4> QED BY <2>6, <4>1, <4>2
    <3>2. Hi(s) = Lo(s) + at
      BY <2>3, <3>1 DEF Upto
    <3> HIDE DEF c
    <3>3. at = Total(s)
      BY <1>1, <2>4, <3>2
    <3>4. MovedOn(s, q) = still
      BY <2>6 DEF MovedOn
    <3> HIDE DEF still
    <3> QED BY <1>4, <3>3, <3>4
  <2>7. CASE ~(IsSingleSegment(s) \/ q.next = NullPosition)
    <3>1. c # s.end.segment
      <4>1. q.next # NullPosition
        BY <2>7
      <4> QED BY <1>1, <2>5, <4>1, NextIs
    <3>2. q.next.segment = c + 1 /\ Edge(s, c) = Lo(s) + at
      BY <1>1, <2>3, <2>5, <3>1, NextIs DEF Upto
    <3> HIDE DEF c
    <3>3. PICK first \in Nat : first = c + 1 /\ 1 <= first /\ first <= s.end.segment /\ first - 1 = c
      BY <2>5, <3>1
    <3>4. PICK k \in first .. s.end.segment : StopsIn(s, first, k)
      BY <2>5, <3>3, StopIs
    <3>5. k \in Nat /\ 1 <= k /\ k <= s.end.segment /\ c <= k
      BY <2>5, <3>3
    <3>6. Edge(s, k - 1) = Lo(s) + at
      <4>1. Edge(s, k - 1) = Edge(s, first - 1)
        BY <1>6, <3>3, <3>4, SkipsNothing
      <4> QED BY <3>2, <3>3, <4>1
    <3> DEFINE more == Filled(s, first) # {}
               p == At(k, 0)
               r == OnwardIn(s, q, k, more)
    <3>7. MovedOn(s, q) = r
      BY <2>7, <3>2, <3>3, <3>4 DEF MovedOn, Onward, OnwardIn, StopsIn
    <3>8. r \in Readers
      <4>1. more \in BOOLEAN
        OBVIOUS
      <4> HIDE DEF more
      <4> QED BY <1>1, <1>6, <3>5, <4>1, OnwardTyped
    <3>9. Within(s, p) /\ p.segment = k /\ Place(s, p) = Edge(s, k - 1)
      BY <2>2, <3>5, StartWithin
    <3>10. /\ Spans(Whole(s), Place(s, p), Upto(s, k))
           /\ PartIs(Buffer(s, p), Whole(s), Place(s, p), Upto(s, k))
      BY <2>2, <3>9, BufferIs
    <3>11. Buffer(s, p) \in Seq(Elems) /\ Len(Buffer(s, p)) \in Nat /\ (Buffer(s, p) = <<>> <=> Place(s, p) = Upto(s, k))
      BY <3>10, PartLength
    <3>12. Buffer(s, p) = <<>> <=> Len(Buffer(s, p)) = 0
      BY <3>11, EmptySeq
    <3>13. more = (Buffer(s, p) # <<>>) /\ (~more => k = s.end.segment)
      BY <3>4 DEF StopsIn
    <3>14. /\ r.current = p /\ r.next = NextBuffer(s, p) /\ r.buffer = Buffer(s, p) /\ r.index = 0
           /\ r.more = more /\ r.consumed = q.consumed
      BY <1>1 DEF OnwardIn, Readers
    <3> HIDE DEF more, r, p
    <3>15. InBuffer(s, r, at)
      <4>1. Place(s, p) + 0 = Lo(s) + at
        BY <1>1, <2>4, <3>6, <3>9
      <4>2. s.begin.segment <= k
        BY <2>5, <3>5
      <4>3. 0 <= Len(Buffer(s, p))
        BY <3>11
      <4> QED BY <1>1, <1>6, <3>8, <3>9, <3>14, <4>1, <4>2, <4>3 DEF InBuffer
    <3>16. r.more = (r.index < Len(r.buffer))
      BY <3>11, <3>12, <3>13, <3>14
    <3>17. r.more \/ at = Total(s)
      <4> SUFFICES ASSUME ~r.more PROVE at = Total(s)
        BY <3>13, <3>14
      <4>1. Place(s, p) = Hi(s)
        BY <3>11, <3>13, <3>14 DEF Upto
      <4> QED BY <1>1, <2>4, <3>6, <3>9, <4>1
    <3> QED BY <3>7, <3>14, <3>15, <3>16, <3>17 DEF Reads
  <2> QED BY <2>6, <2>7
<1> QED BY <1>5, <1>6 DEF InBuffer

-----------------------------------------------------------------------------
(* Steps in the buffer.                                                    *)

Shifted(q, index, consumed, more) == [q EXCEPT !.index = index, !.consumed = consumed, !.more = more]

\* r is q with another index, count and flag.
ShiftsTo(q, index, consumed, more, r) ==
    /\ q \in Readers /\ index \in Nat /\ consumed \in Nat /\ more \in BOOLEAN
    /\ r \in Readers /\ r.index = index /\ r.consumed = consumed /\ r.more = more
    /\ r.current = q.current /\ r.next = q.next /\ r.buffer = q.buffer

LEMMA ShiftedIs ==
    ASSUME NEW q \in Readers, NEW index \in Nat, NEW consumed \in Nat, NEW more \in BOOLEAN
    PROVE  ShiftsTo(q, index, consumed, more, Shifted(q, index, consumed, more))
<1> DEFINE r == Shifted(q, index, consumed, more)
<1>1. /\ r \in Readers /\ r.index = index /\ r.consumed = consumed /\ r.more = more
      /\ r.current = q.current /\ r.next = q.next /\ r.buffer = q.buffer
  BY DEF Shifted, Readers
<1> QED BY <1>1 DEF ShiftsTo

\* Elsewhere in the buffer.
LEMMA ShiftedInBuffer ==
    ASSUME NEW s, NEW q, NEW at \in Nat, InBuffer(s, q, at),
           NEW index \in Nat, NEW consumed, NEW more, NEW r, ShiftsTo(q, index, consumed, more, r),
           index <= Len(q.buffer), NEW to \in Nat, to + q.index = at + index
    PROVE  InBuffer(s, r, to)
<1>1. Sees(s, q, at)
  BY SeesIs
<1>2. q.index \in Nat /\ Len(q.buffer) \in Nat /\ q.index <= Len(q.buffer)
  BY <1>1 DEF Sees
<1>3. /\ r \in Readers /\ r.index = index /\ r.current = q.current /\ r.next = q.next /\ r.buffer = q.buffer
  BY DEF ShiftsTo
<1>4. r.next = NextBuffer(s, r.current) /\ r.index <= Len(r.buffer)
  <2>1. q.next = NextBuffer(s, q.current)
    BY DEF InBuffer
  <2> QED BY <1>3, <2>1
<1>5. CASE /\ Window(s) /\ Within(s, q.current) /\ s.begin.segment <= q.current.segment
           /\ q.buffer = Buffer(s, q.current)
           /\ Place(s, q.current) + q.index = Lo(s) + at
  <2>1. Place(s, q.current) \in Nat /\ Lo(s) \in Nat
    <3>1. Listed(s) /\ Placed(s, q.current) /\ Lo(s) \in Nat
      BY <1>5, WindowListed, WindowSpan DEF Within
    <3>2. Charted(s, q.current)
      BY <3>1, ChartHolds
    <3> QED BY <3>1, <3>2 DEF Charted
  <2>2. Place(s, q.current) + q.index = Lo(s) + at
    BY <1>5
  <2>3. Place(s, q.current) + index = Lo(s) + to
    <3>1. PICK from \in Nat, lo \in Nat : from = Place(s, q.current) /\ lo = Lo(s)
      BY <2>1
    <3>2. from + q.index = lo + at
      BY <2>2, <3>1
    <3>3. from + index = lo + to
      BY <1>2, <3>2
    <3> QED BY <3>1, <3>3
  <2>4. Place(s, r.current) + r.index = Lo(s) + to
    BY <1>3, <2>3
  <2>5. /\ Window(s) /\ Within(s, r.current) /\ s.begin.segment <= r.current.segment
        /\ r.buffer = Buffer(s, r.current)
    BY <1>3, <1>5
  <2> QED BY <1>3, <1>4, <2>4, <2>5, Zenon DEF InBuffer
<1>6. CASE NullSequence(s) /\ q.current = NullPosition /\ q.buffer = <<>> /\ at = 0
  <2>1. Len(q.buffer) = 0
    BY <1>6, EmptySeq
  <2>2. to = 0
    BY <1>2, <1>6, <2>1
  <2>3. NullSequence(s) /\ r.current = NullPosition /\ r.buffer = <<>> /\ to = 0
    BY <1>3, <1>6, <2>2
  <2> QED BY <1>3, <1>4, <2>3, Zenon DEF InBuffer
<1> QED BY <1>5, <1>6 DEF InBuffer

\* Not at the end of the buffer.
LEMMA ShiftedReads ==
    ASSUME NEW s, NEW q, NEW at \in Nat, InBuffer(s, q, at),
           NEW index \in Nat, NEW consumed, NEW r, ShiftsTo(q, index, consumed, TRUE, r),
           index < Len(q.buffer), NEW to \in Nat, to + q.index = at + index
    PROVE  Reads(s, r, to)
<1>1. Sees(s, q, at)
  BY SeesIs
<1>2. Len(q.buffer) \in Nat
  BY <1>1 DEF Sees
<1>3. r.index = index /\ r.buffer = q.buffer /\ r.more = TRUE
  BY DEF ShiftsTo
<1>4. InBuffer(s, r, to)
  <2>1. PICK more : more = TRUE
    OBVIOUS
  <2>2. ShiftsTo(q, index, consumed, more, r)
    BY <2>1
  <2>3. index <= Len(q.buffer)
    BY <1>2
  <2> QED BY <2>2, <2>3, ShiftedInBuffer
<1>5. (r.index < Len(r.buffer)) = TRUE
  BY <1>3
<1>6. r.more = (r.index < Len(r.buffer))
  BY <1>3, <1>5, Zenon
<1> QED BY <1>3, <1>4, <1>6 DEF Reads

\* There is more as long as the end is not reached, and then in this buffer.
LEMMA ReadsIs ==
    ASSUME NEW s, NEW q, NEW at, Reads(s, q, at)
    PROVE  /\ InBuffer(s, q, at) /\ Sees(s, q, at) /\ q \in Readers
           /\ at <= Total(s) /\ at \in Nat /\ Total(s) \in Nat /\ q.consumed \in Nat /\ q.more \in BOOLEAN
           /\ q.more <=> at < Total(s)
           /\ q.more <=> UnreadBuffer(q) # <<>>
           /\ q.more <=> 0 < Len(UnreadBuffer(q))
<1>1. InBuffer(s, q, at) /\ Sees(s, q, at) /\ q \in Readers /\ (q.more <=> q.index < Len(q.buffer)) /\ (q.more \/ at = Total(s))
  BY SeesIs DEF Reads, InBuffer
<1>2. /\ at \in Nat /\ Total(s) \in Nat /\ q.index \in Nat /\ q.consumed \in Nat /\ Len(q.buffer) \in Nat
      /\ UnreadBuffer(q) \in Seq(Elems) /\ Len(UnreadBuffer(q)) \in Nat
      /\ Len(UnreadBuffer(q)) = Len(q.buffer) - q.index /\ at + Len(UnreadBuffer(q)) <= Total(s)
  BY <1>1 DEF Sees
<1>3. UnreadBuffer(q) = <<>> <=> Len(UnreadBuffer(q)) = 0
  BY <1>2, EmptySeq
<1>4. q.more \in BOOLEAN
  BY <1>1 DEF Readers
<1>5. q.more <=> 0 < Len(UnreadBuffer(q))
  BY <1>1, <1>2
<1>6. at <= Total(s) /\ (q.more <=> at < Total(s))
  BY <1>1, <1>2, <1>5
<1> QED BY <1>1, <1>2, <1>3, <1>4, <1>5, <1>6

\* What AdvanceCurrentBuffer does with the next n elements of the buffer.
Goes(s, q, at, n, r) ==
    /\ Reads(s, r, at + n)
    /\ r.consumed = q.consumed + n
    /\ n = Len(UnreadBuffer(q)) /\ r.more => r.index = 0
    /\ n < Len(UnreadBuffer(q)) => r.more /\ r.index = q.index + n

\* AdvanceCurrentBuffer goes n elements further and counts them.
LEMMA AdvanceCurrentIs ==
    ASSUME NEW q, NEW at \in Nat, Reads(sequence, q, at), NEW n \in Nat, n <= Len(UnreadBuffer(q))
    PROVE  Goes(sequence, q, at, n, AdvanceCurrentBuffer(q, n))
<1> DEFINE s == sequence
           r == AdvanceCurrentBuffer(q, n)
           moved == [q EXCEPT !.consumed = @ + n, !.index = @ + n]
<1>0. /\ InBuffer(s, q, at) /\ Sees(s, q, at) /\ q \in Readers /\ q.consumed \in Nat /\ q.more \in BOOLEAN
      /\ q.more <=> 0 < Len(UnreadBuffer(q))
  BY ReadsIs
<1>1. /\ q.index \in Nat /\ Len(q.buffer) \in Nat
      /\ Len(UnreadBuffer(q)) \in Nat /\ Len(UnreadBuffer(q)) = Len(q.buffer) - q.index
  BY <1>0 DEF Sees
<1>2. PICK i \in Nat, c \in Nat, to \in Nat : i = q.index + n /\ c = q.consumed + n /\ to = at + n
  BY <1>0, <1>1
<1>3. to + q.index = at + i
  BY <1>1, <1>2
<1>4. moved = Shifted(q, i, c, q.more)
  BY <1>0, <1>2 DEF Shifted, Readers
<1>5. r = IF moved.index >= Len(q.buffer) THEN MoveToNextBuffer(moved) ELSE moved
  BY <1>0 DEF AdvanceCurrentBuffer, Readers
<1> HIDE DEF r, moved, s
<1>6. ShiftsTo(q, i, c, q.more, moved)
  BY <1>0, <1>4, ShiftedIs
<1>7. moved.index = i /\ moved.consumed = c /\ moved.more = q.more /\ moved.buffer = q.buffer
  BY <1>6 DEF ShiftsTo
<1>8. CASE n = Len(UnreadBuffer(q))
  <2>1. i = Len(q.buffer)
    BY <1>1, <1>2, <1>8
  <2>2. InBuffer(s, moved, to)
    <3>1. i <= Len(q.buffer)
      BY <2>1
    <3> QED BY <1>0, <1>3, <1>6, <3>1, ShiftedInBuffer
  <2>3. r = MovedOn(s, moved)
    <3>1. moved.index >= Len(q.buffer)
      BY <1>7, <2>1
    <3> QED BY <1>5, <3>1, MoveIsMovedOn DEF s
  <2>4. moved.index = Len(moved.buffer)
    BY <1>7, <2>1
  <2>5. Reads(s, r, to) /\ r.consumed = moved.consumed /\ (r.more => r.index = 0)
    BY <2>2, <2>3, <2>4, MoveIs
  <2>6. ~(n < Len(UnreadBuffer(q)))
    BY <1>1, <1>8
  <2> QED BY <1>2, <1>7, <2>5, <2>6 DEF Goes, s, r
<1>9. CASE n # Len(UnreadBuffer(q))
  <2>1. i < Len(q.buffer) /\ n < Len(UnreadBuffer(q)) /\ 0 < Len(UnreadBuffer(q))
    BY <1>1, <1>2, <1>9
  <2>2. q.more = TRUE
    BY <1>0, <2>1
  <2>3. r = moved
    <3>1. ~(moved.index >= Len(q.buffer))
      BY <1>1, <1>7, <2>1
    <3> QED BY <1>5, <3>1
  <2>4. ShiftsTo(q, i, c, TRUE, moved)
    BY <1>6, <2>2
  <2>5. Reads(s, r, to)
    BY <1>0, <1>3, <2>1, <2>3, <2>4, ShiftedReads
  <2> QED BY <1>2, <1>7, <1>9, <2>2, <2>3, <2>5 DEF Goes, s, r
<1> QED BY <1>8, <1>9

-----------------------------------------------------------------------------
(* Loops.                                                                  *)

\* A set that contains what next makes of its elements, until one of stops.
ClosedUnder(S, stops, next, I) == I \subseteq S /\ \A x \in I : x \notin stops => next[x] \in I

\* The stops that next leads to from s.
Meets(S, stops, next, s) ==
    {e \in S : e \in stops /\ \A I \in SUBSET S : ClosedUnder(S, stops, next, I) /\ s \in I => e \in I}

\* A loop that has stopped meets no other stop.
LEMMA MeetsOneself ==
    ASSUME NEW S, NEW stops, NEW next, NEW s \in S, s \in stops
    PROVE  Meets(S, stops, next, s) = {s}
<1>1. ClosedUnder(S, stops, next, {s}) /\ {s} \in SUBSET S
  BY DEF ClosedUnder
<1>2. \A e \in Meets(S, stops, next, s) : e \in {s}
  BY <1>1 DEF Meets
<1>3. s \in Meets(S, stops, next, s)
  BY DEF Meets
<1> QED BY <1>2, <1>3

\* A loop that goes on meets the stops that the next turn meets.
LEMMA MeetsTheSame ==
    ASSUME NEW S, NEW stops, NEW next \in [S -> S], NEW s \in S, s \notin stops
    PROVE  Meets(S, stops, next, s) = Meets(S, stops, next, next[s])
<1> DEFINE t == next[s]
<1>1. ASSUME NEW e \in Meets(S, stops, next, s) PROVE e \in Meets(S, stops, next, t)
  <2>1. e \in S /\ e \in stops
    BY <1>1 DEF Meets
  <2>2. ASSUME NEW I \in SUBSET S, ClosedUnder(S, stops, next, I), t \in I PROVE e \in I
    <3> DEFINE J == I \cup {s}
    <3>1. ClosedUnder(S, stops, next, J) /\ J \in SUBSET S /\ s \in J
      BY <2>2 DEF ClosedUnder
    <3> HIDE DEF J
    <3>2. e \in J
      BY <1>1, <3>1 DEF Meets
    <3>3. e # s
      BY <2>1
    <3> QED BY <3>2, <3>3 DEF J
  <2> HIDE DEF t
  <2> QED BY <2>1, <2>2 DEF Meets
<1>2. ASSUME NEW e \in Meets(S, stops, next, t) PROVE e \in Meets(S, stops, next, s)
  <2>1. e \in S /\ e \in stops
    BY <1>2 DEF Meets
  <2>2. ASSUME NEW I \in SUBSET S, ClosedUnder(S, stops, next, I), s \in I PROVE e \in I
    <3>1. t \in I
      BY <2>2 DEF ClosedUnder
    <3> QED BY <1>2, <2>2, <3>1 DEF Meets
  <2> QED BY <2>1, <2>2 DEF Meets
<1> QED BY <1>1, <1>2

StaysIn(S, next) == next \in [S -> S]

Solvable(S, stops, next, out) == \E f : f = [s \in S |-> IF s \in stops THEN out[s] ELSE f[next[s]]]

\* A loop that does not end is a function too: its equation has a solution.
LEMMA LoopDefined ==
    ASSUME NEW S, NEW stops, NEW next, StaysIn(S, next), NEW out
    PROVE  Solvable(S, stops, next, out)
<1> DEFINE M(s) == Meets(S, stops, next, s)
           End(s) == CHOOSE e : e \in M(s)
           f == [s \in S |-> out[End(s)]]
           g == [s \in S |-> IF s \in stops THEN out[s] ELSE f[next[s]]]
<1>0. next \in [S -> S]
  BY DEF StaysIn
<1>1. ASSUME NEW s \in S PROVE f[s] = g[s]
  <2>1. CASE s \in stops
    <3>1. M(s) = {s}
      BY <2>1, MeetsOneself
    <3> HIDE DEF M
    <3>2. End(s) = s
      BY <3>1
    <3> HIDE DEF End
    <3> QED BY <2>1, <3>2
  <2>2. CASE s \notin stops
    <3>1. M(s) = M(next[s]) /\ next[s] \in S
      BY <1>0, <2>2, MeetsTheSame
    <3> HIDE DEF M
    <3>2. End(s) = End(next[s])
      BY <3>1
    <3> HIDE DEF End
    <3> QED BY <2>2, <3>1, <3>2
  <2> QED BY <2>1, <2>2
<1> HIDE DEF M, End
<1>2. f = g
  <2>1. f = [s \in S |-> f[s]] /\ g = [s \in S |-> g[s]]
    OBVIOUS
  <2> HIDE DEF f, g
  <2> QED BY <1>1, <2>1
<1> QED BY <1>2 DEF Solvable

-----------------------------------------------------------------------------
(* The loops of the reader, unfolded once.                                 *)

LEMMA AdvanceCurrentTyped ==
    ASSUME Proper(sequence), NEW q \in Readers, NEW n \in Nat
    PROVE  AdvanceCurrentBuffer(q, n) \in Readers
<1> DEFINE moved == [q EXCEPT !.consumed = @ + n, !.index = @ + n]
<1>1. moved \in Readers
  <2>1. PICK i \in Nat, c \in Nat : i = q.index + n /\ c = q.consumed + n
    BY DEF Readers
  <2>2. moved = Shifted(q, i, c, q.more) /\ q.more \in BOOLEAN
    BY <2>1 DEF Shifted, Readers
  <2>3. ShiftsTo(q, i, c, q.more, Shifted(q, i, c, q.more))
    BY <2>2, ShiftedIs
  <2> QED BY <2>2, <2>3 DEF ShiftsTo
<1>2. AdvanceCurrentBuffer(q, n) \in {MoveToNextBuffer(moved), moved}
  BY DEF AdvanceCurrentBuffer
<1> HIDE DEF moved
<1>3. MoveToNextBuffer(moved) \in Readers
  BY <1>1, MoveIsMovedOn, MoveTyped
<1> QED BY <1>1, <1>2, <1>3

Left(q) == Len(q.buffer) - q.index

ToEnd(q) == MoveToNextBuffer([q EXCEPT !.index = @ + Left(q)])

LEMMA ToEndTyped ==
    ASSUME Proper(sequence), NEW q \in Readers
    PROVE  ToEnd(q) \in Readers /\ Left(q) \in Int
<1> DEFINE r == [q EXCEPT !.index = @ + Left(q)]
<1>1. Len(q.buffer) \in Nat /\ q.index \in Nat
  BY DEF Readers
<1>2. q.index + Left(q) = Len(q.buffer) /\ Left(q) \in Int
  BY <1>1 DEF Left
<1>3. r \in Readers
  <2>1. PICK i \in Nat : i = q.index + Left(q)
    BY <1>1, <1>2
  <2>2. r = [q EXCEPT !.index = i]
    BY <2>1
  <2> QED BY <2>2 DEF Readers
<1> HIDE DEF r
<1>4. MoveToNextBuffer(r) \in Readers
  BY <1>3, MoveIsMovedOn, MoveTyped
<1> QED BY <1>2, <1>4 DEF ToEnd, r

\* A turn of the loop of AdvanceAcross.
AcrossTurn(q, count) ==
    IF ~q.more THEN q
    ELSE IF Left(q) > count THEN [q EXCEPT !.index = @ + count]
    ELSE IF Left(q) = count THEN ToEnd(q)
    ELSE AdvanceAcross(ToEnd(q), count - Left(q))

\* Its equation.
AcrossStep(f) ==
    [state \in Readers \X Nat |->
        LET q == state[1]
            count == state[2]
            remaining == Len(q.buffer) - q.index
            moved == MoveToNextBuffer([q EXCEPT !.index = @ + remaining])
        IN  IF ~q.more THEN q
            ELSE IF remaining > count THEN [q EXCEPT !.index = @ + count]
            ELSE IF remaining = count THEN moved
            ELSE f[<<moved, count - remaining>>]]

\* The loop of Advance is its first turn followed by the loop.
LEMMA AcrossUnfolds ==
    ASSUME Proper(sequence), NEW q \in Readers, NEW count \in Nat
    PROVE  AdvanceAcross(q, count) = AcrossTurn(q, count)
<1> DEFINE S == Readers \X Nat
           Goes1(x) == x[1].more /\ Left(x[1]) < x[2]
           stops == {x \in S : ~Goes1(x)}
           out == [x \in S |-> IF ~x[1].more THEN x[1]
                               ELSE IF Left(x[1]) > x[2] THEN [x[1] EXCEPT !.index = @ + x[2]]
                               ELSE ToEnd(x[1])]
           next == [x \in S |-> IF x \in stops THEN x ELSE <<ToEnd(x[1]), x[2] - Left(x[1])>>]
           Body(h, x) ==
               IF ~x[1].more THEN x[1]
               ELSE IF Left(x[1]) > x[2] THEN [x[1] EXCEPT !.index = @ + x[2]]
               ELSE IF Left(x[1]) = x[2] THEN ToEnd(x[1])
               ELSE h[<<ToEnd(x[1]), x[2] - Left(x[1])>>]
           Turn(h, x) == IF x \in stops THEN out[x] ELSE h[next[x]]
<1>1. next \in [S -> S]
  <2> SUFFICES ASSUME NEW x \in S, x \notin stops PROVE <<ToEnd(x[1]), x[2] - Left(x[1])>> \in S
    OBVIOUS
  <2>1. x[1] \in Readers /\ x[2] \in Nat /\ Left(x[1]) < x[2]
    OBVIOUS
  <2>2. ToEnd(x[1]) \in Readers /\ Left(x[1]) \in Int
    BY <2>1, ToEndTyped
  <2>3. x[2] - Left(x[1]) \in Nat
    BY <2>1, <2>2
  <2> QED BY <2>2, <2>3
<1>2. ASSUME NEW h, NEW x \in S PROVE Body(h, x) = Turn(h, x)
  <2>1. x[1] \in Readers /\ x[2] \in Nat /\ x[1].more \in BOOLEAN
    BY DEF Readers
  <2>2. Left(x[1]) \in Int
    BY <2>1, ToEndTyped
  <2>3. CASE Goes1(x)
    <3>1. x \notin stops /\ next[x] = <<ToEnd(x[1]), x[2] - Left(x[1])>>
      BY <2>3
    <3>2. Body(h, x) = h[<<ToEnd(x[1]), x[2] - Left(x[1])>>]
      BY <2>1, <2>2, <2>3
    <3> QED BY <3>1, <3>2
  <2>4. CASE ~Goes1(x)
    <3>1. x \in stops /\ Turn(h, x) = out[x]
      BY <2>4
    <3>2. Body(h, x) = out[x]
      BY <2>1, <2>2, <2>4
    <3> QED BY <3>1, <3>2
  <2> QED BY <2>3, <2>4
<1>3. \A h : AcrossStep(h) = [x \in S |-> Body(h, x)]
  BY DEF AcrossStep, Left, ToEnd
<1>4. \E f : f = [x \in S |-> Turn(f, x)]
  <2> HIDE DEF stops, out, next, S
  <2>1. Solvable(S, stops, next, out)
    BY <1>1, LoopDefined DEF StaysIn
  <2> QED BY <2>1 DEF Solvable
<1> HIDE DEF Turn, Body, S, stops, out, next
<1>5. \A h : AcrossStep(h) = [x \in S |-> Turn(h, x)]
  BY <1>2, <1>3
<1> DEFINE f == CHOOSE h : h = AcrossStep(h)
<1>6. f = AcrossStep(f)
  <2>1. \E h : h = AcrossStep(h)
    BY <1>4, <1>5
  <2> QED BY <2>1
<1>7. \A r, c : AdvanceAcross(r, c) = f[<<r, c>>]
  BY DEF AdvanceAcross, AcrossStep
<1> HIDE DEF f
<1>8. <<q, count>> \in S
  BY DEF S
<1>9. f[<<q, count>>] = Body(f, <<q, count>>)
  BY <1>3, <1>6, <1>8
<1>10. Body(f, <<q, count>>) = AcrossTurn(q, count)
  <2> DEFINE rest == count - Left(q)
             m == ToEnd(q)
  <2>1. f[<<m, rest>>] = AdvanceAcross(m, rest)
    BY <1>7
  <2> QED BY <2>1 DEF Body, AcrossTurn
<1> QED BY <1>7, <1>9, <1>10

\* The first of the numbers of I, counted up to n.
FirstIn(n, I, i) ==
    /\ i \in Nat /\ i <= n
    /\ i = 0 => I = {}
    /\ i # 0 => i \in I /\ \A j \in 1 .. i - 1 : j \notin I

\* The least of a set of indexes, or 0 of none.
LEMMA FirstInIs ==
    ASSUME NEW n \in Nat, NEW I, I \subseteq 1 .. n, NEW i, i = IF I # {} THEN Min(I) ELSE 0
    PROVE  FirstIn(n, I, i)
<1>1. CASE I = {}
  BY <1>1 DEF FirstIn
<1>2. CASE I # {}
  <2>1. I \subseteq Nat
    OBVIOUS
  <2>2. i \in I /\ \A k \in I : i <= k
    BY <1>2, <2>1, LeastOf
  <2>3. i \in Nat /\ i <= n /\ i # 0
    BY <2>2
  <2>4. \A j \in 1 .. i - 1 : j \notin I
    BY <2>2, <2>3
  <2> QED BY <1>2, <2>2, <2>3, <2>4 DEF FirstIn
<1> QED BY <1>1, <1>2

\* Where the elements of u are, that are not among values, or that are d.
OthersIn(u, values) == {i \in 1 .. Len(u) : u[i] \notin values}
PlacesOf(u, d) == {i \in 1 .. Len(u) : u[i] = d}

FirstOther(u, values) == SelectInSeq(u, LAMBDA x : x \notin values)

\* SelectInSeq finds the first element that is not among the values.
LEMMA FirstOtherIs ==
    ASSUME NEW u, Len(u) \in Nat, NEW values
    PROVE  FirstIn(Len(u), OthersIn(u, values), FirstOther(u, values))
<1> DEFINE I == OthersIn(u, values)
           i == FirstOther(u, values)
<1>1. i = IF I # {} THEN Min(I) ELSE 0
  BY DEF FirstOther, OthersIn, SelectInSeq
<1>2. I \subseteq 1 .. Len(u)
  BY DEF OthersIn
<1> HIDE DEF I, i
<1>3. FirstIn(Len(u), I, i)
  BY <1>1, <1>2, FirstInIs
<1> QED BY <1>3 DEF I, i

\* FindFirstOf finds the first delimiter.
LEMMA FindFirstIs ==
    ASSUME NEW u, Len(u) \in Nat, NEW d
    PROVE  FirstIn(Len(u), PlacesOf(u, d), FindFirstOf(u, d))
<1> DEFINE I == PlacesOf(u, d)
           i == FindFirstOf(u, d)
<1>1. i = IF I # {} THEN Min(I) ELSE 0
  BY DEF FindFirstOf, PlacesOf, SelectInSeq
<1>2. I \subseteq 1 .. Len(u)
  BY DEF PlacesOf
<1> HIDE DEF I, i
<1>3. FirstIn(Len(u), I, i)
  BY <1>1, <1>2, FirstInIs
<1> QED BY <1>3 DEF I, i

LEMMA UnreadTyped ==
    ASSUME NEW q \in Readers
    PROVE  Len(UnreadBuffer(q)) \in Nat
<1>1. q.buffer \in Seq(Elems) /\ q.index \in Nat
  BY DEF Readers
<1>2. PICK b \in Seq(Elems) : b = q.buffer
  BY <1>1
<1>3. Len(b) \in Nat /\ q.index + 1 \in Nat
  BY <1>1
<1>4. Len(SubSeq(b, q.index + 1, Len(b))) \in Nat
  BY <1>3, SubSeqProperties
<1> QED BY <1>2, <1>4 DEF UnreadBuffer, Slice

\* A turn of the loop of AdvancedPast.
RunOf(q, values) ==
    IF FirstOther(UnreadBuffer(q), values) = 0 THEN Len(UnreadBuffer(q))
    ELSE FirstOther(UnreadBuffer(q), values) - 1

PastMoved(q, values) == AdvanceCurrentBuffer(q, RunOf(q, values))

GoesOn(q, values) ==
    RunOf(q, values) # 0 /\ PastMoved(q, values).index = 0 /\ PastMoved(q, values).more

PastTurn(q, values) ==
    IF RunOf(q, values) = 0 THEN q
    ELSE IF GoesOn(q, values) THEN AdvancedPast(PastMoved(q, values), values)
    ELSE PastMoved(q, values)

PastStep(values, f) ==
    [q \in Readers |->
        LET other == SelectInSeq(UnreadBuffer(q), LAMBDA x : x \notin values)
            run == IF other = 0 THEN Len(UnreadBuffer(q)) ELSE other - 1
            moved == AdvanceCurrentBuffer(q, run)
        IN  IF run = 0 THEN q
            ELSE IF moved.index = 0 /\ moved.more THEN f[moved]
            ELSE moved]

LEMMA PastTyped ==
    ASSUME Proper(sequence), NEW q \in Readers, NEW values
    PROVE  RunOf(q, values) \in Nat /\ PastMoved(q, values) \in Readers
<1>1. Len(UnreadBuffer(q)) \in Nat
  BY UnreadTyped
<1>2. FirstIn(Len(UnreadBuffer(q)), OthersIn(UnreadBuffer(q), values), FirstOther(UnreadBuffer(q), values))
  BY <1>1, FirstOtherIs
<1>3. FirstOther(UnreadBuffer(q), values) \in Nat
  BY <1>2 DEF FirstIn
<1>4. RunOf(q, values) \in Nat
  BY <1>1, <1>3 DEF RunOf
<1> QED BY <1>4, AdvanceCurrentTyped DEF PastMoved

\* The loop of AdvancePastPredicate is its first turn followed by the loop.
LEMMA PastUnfolds ==
    ASSUME Proper(sequence), NEW q \in Readers, NEW values
    PROVE  AdvancedPast(q, values) = PastTurn(q, values)
<1> DEFINE S == Readers
           stops == {x \in S : ~GoesOn(x, values)}
           out == [x \in S |-> IF RunOf(x, values) = 0 THEN x ELSE PastMoved(x, values)]
           next == [x \in S |-> PastMoved(x, values)]
           Body(h, x) ==
               IF RunOf(x, values) = 0 THEN x
               ELSE IF PastMoved(x, values).index = 0 /\ PastMoved(x, values).more THEN h[PastMoved(x, values)]
               ELSE PastMoved(x, values)
           Turn(h, x) == IF x \in stops THEN out[x] ELSE h[next[x]]
<1>1. next \in [S -> S]
  BY PastTyped
<1>2. ASSUME NEW h, NEW x \in S PROVE Body(h, x) = Turn(h, x)
  BY DEF GoesOn
<1>3. \A h : PastStep(values, h) = [x \in S |-> Body(h, x)]
  BY DEF PastStep, PastMoved, RunOf, FirstOther
<1>4. \E f : f = [x \in S |-> Turn(f, x)]
  <2> HIDE DEF stops, out, next, S
  <2>1. Solvable(S, stops, next, out)
    BY <1>1, LoopDefined DEF StaysIn
  <2> QED BY <2>1 DEF Solvable
<1>5. \A h, x : Body(h, x) = IF RunOf(x, values) = 0 THEN x ELSE IF GoesOn(x, values) THEN h[PastMoved(x, values)] ELSE PastMoved(x, values)
  BY DEF GoesOn
<1> HIDE DEF Turn, Body, stops, out, next
<1>6. \A h : PastStep(values, h) = [x \in S |-> Turn(h, x)]
  BY <1>2, <1>3
<1> DEFINE f == CHOOSE h : h = PastStep(values, h)
<1>7. f = PastStep(values, f)
  <2>1. \E h : h = PastStep(values, h)
    BY <1>4, <1>6
  <2> QED BY <2>1
<1>8. \A r : AdvancedPast(r, values) = f[r]
  BY DEF AdvancedPast, PastStep
<1> HIDE DEF f
<1>9. f[q] = Body(f, q)
  BY <1>3, <1>7
<1>10. Body(f, q) = PastTurn(q, values)
  <2> DEFINE m == PastMoved(q, values)
  <2>1. f[m] = AdvancedPast(m, values)
    BY <1>8
  <2> QED BY <1>5, <2>1 DEF PastTurn
<1> QED BY <1>8, <1>9, <1>10

\* A turn of the loop of AtDelimiter.
DelimiterIn(q, delimiter) == FindFirstOf(UnreadBuffer(q), delimiter)

Emptied(q) == AdvanceCurrentBuffer(q, Len(UnreadBuffer(q)))

DelimiterTurn(q, delimiter) ==
    IF ~q.more THEN q
    ELSE IF DelimiterIn(q, delimiter) = 0 THEN AtDelimiter(Emptied(q), delimiter)
    ELSE AdvanceCurrentBuffer(q, DelimiterIn(q, delimiter) - 1)

DelimiterStep(delimiter, f) ==
    [q \in Readers |->
        LET i == FindFirstOf(UnreadBuffer(q), delimiter)
        IN  IF ~q.more THEN q
            ELSE IF i = 0 THEN f[AdvanceCurrentBuffer(q, Len(UnreadBuffer(q)))]
            ELSE AdvanceCurrentBuffer(q, i - 1)]

\* The loop of TryReadToImpl is its first turn followed by the loop.
LEMMA DelimiterUnfolds ==
    ASSUME Proper(sequence), NEW q \in Readers, NEW d
    PROVE  AtDelimiter(q, d) = DelimiterTurn(q, d)
<1> DEFINE S == Readers
           stops == {x \in S : ~(x.more /\ DelimiterIn(x, d) = 0)}
           out == [x \in S |-> IF ~x.more THEN x ELSE AdvanceCurrentBuffer(x, DelimiterIn(x, d) - 1)]
           next == [x \in S |-> Emptied(x)]
           Body(h, x) ==
               IF ~x.more THEN x
               ELSE IF DelimiterIn(x, d) = 0 THEN h[Emptied(x)]
               ELSE AdvanceCurrentBuffer(x, DelimiterIn(x, d) - 1)
           Turn(h, x) == IF x \in stops THEN out[x] ELSE h[next[x]]
<1>1. next \in [S -> S]
  BY UnreadTyped, AdvanceCurrentTyped DEF Emptied
<1>2. ASSUME NEW h, NEW x \in S PROVE Body(h, x) = Turn(h, x)
  OBVIOUS
<1>3. \A h : DelimiterStep(d, h) = [x \in S |-> Body(h, x)]
  BY DEF DelimiterStep, DelimiterIn, Emptied
<1>4. \E f : f = [x \in S |-> Turn(f, x)]
  <2> HIDE DEF stops, out, next, S
  <2>1. Solvable(S, stops, next, out)
    BY <1>1, LoopDefined DEF StaysIn
  <2> QED BY <2>1 DEF Solvable
<1> HIDE DEF Turn, Body, stops, out, next
<1>5. \A h : DelimiterStep(d, h) = [x \in S |-> Turn(h, x)]
  BY <1>2, <1>3
<1> DEFINE f == CHOOSE h : h = DelimiterStep(d, h)
<1>6. f = DelimiterStep(d, f)
  <2>1. \E h : h = DelimiterStep(d, h)
    BY <1>4, <1>5
  <2> QED BY <2>1
<1>7. \A r : AtDelimiter(r, d) = f[r]
  BY DEF AtDelimiter, DelimiterStep
<1> HIDE DEF f
<1>8. f[q] = Body(f, q)
  BY <1>3, <1>6
<1>9. Body(f, q) = DelimiterTurn(q, d)
  BY <1>7 DEF Body, DelimiterTurn
<1> QED BY <1>7, <1>8, <1>9

-----------------------------------------------------------------------------
(* Advance.                                                                *)

LEMMA ProperIs ==
    ASSUME NEW s, NEW q, NEW at, InBuffer(s, q, at)
    PROVE  Proper(s)
BY DEF InBuffer, Proper

\* r is behind the first "to" elements, and has consumed what q has.
Arrives(s, q, to, r) == Reads(s, r, to) /\ r.consumed = q.consumed

\* Leaving a buffer goes as far as there was data left, and counts nothing.
LEMMA ToEndIs ==
    ASSUME NEW q, NEW at \in Nat, Reads(sequence, q, at)
    PROVE  /\ Left(q) = Len(UnreadBuffer(q)) /\ Left(q) \in Nat
           /\ Arrives(sequence, q, at + Left(q), ToEnd(q))
<1>1. /\ InBuffer(sequence, q, at) /\ Sees(sequence, q, at) /\ q \in Readers /\ q.consumed \in Nat
      /\ q.more \in BOOLEAN
  BY ReadsIs
<1>2. /\ q.index \in Nat /\ Len(q.buffer) \in Nat /\ Len(UnreadBuffer(q)) \in Nat
      /\ Len(UnreadBuffer(q)) = Len(q.buffer) - q.index
  BY <1>1 DEF Sees
<1>3. Left(q) = Len(UnreadBuffer(q)) /\ Left(q) \in Nat
  BY <1>2 DEF Left
<1> DEFINE r == [q EXCEPT !.index = @ + Left(q)]
<1>4. PICK i \in Nat, to \in Nat : i = q.index + Left(q) /\ to = at + Left(q)
  BY <1>2, <1>3
<1>5. i = Len(q.buffer) /\ to + q.index = at + i
  BY <1>2, <1>3, <1>4
<1>6. r = Shifted(q, i, q.consumed, q.more)
  BY <1>1, <1>4 DEF Shifted, Readers
<1> HIDE DEF r
<1>7. ShiftsTo(q, i, q.consumed, q.more, r)
  BY <1>1, <1>6, ShiftedIs
<1>8. InBuffer(sequence, r, to)
  <2>1. i <= Len(q.buffer)
    BY <1>5
  <2> QED BY <1>1, <1>5, <1>7, <2>1, ShiftedInBuffer
<1>9. r.index = Len(r.buffer) /\ r.consumed = q.consumed
  BY <1>5, <1>7 DEF ShiftsTo
<1>10. ToEnd(q) = MovedOn(sequence, r)
  BY MoveIsMovedOn DEF ToEnd, r
<1>11. Reads(sequence, ToEnd(q), to) /\ ToEnd(q).consumed = q.consumed
  BY <1>8, <1>9, <1>10, MoveIs
<1> QED BY <1>3, <1>4, <1>11 DEF Arrives

\* The loop of Advance goes k elements on and counts none.
Crosses(k) ==
    \A q : \A at, to \in Nat :
        Reads(sequence, q, at) /\ to = at + k /\ to <= Total(sequence) =>
            Arrives(sequence, q, to, AdvanceAcross(q, k))

\* If Advance's loop goes right for all smaller counts, it does for this one.
LEMMA CrossesOn ==
    ASSUME NEW k \in Nat, \A j \in 0 .. k - 1 : Crosses(j)
    PROVE  Crosses(k)
<1> SUFFICES ASSUME NEW q, NEW at \in Nat, NEW to \in Nat, Reads(sequence, q, at), to = at + k, to <= Total(sequence)
             PROVE  Arrives(sequence, q, to, AdvanceAcross(q, k))
  BY DEF Crosses
<1>1. /\ InBuffer(sequence, q, at) /\ Sees(sequence, q, at) /\ q \in Readers /\ q.consumed \in Nat
      /\ q.more \in BOOLEAN
      /\ at <= Total(sequence) /\ Total(sequence) \in Nat
      /\ (q.more <=> at < Total(sequence)) /\ (q.more <=> 0 < Len(UnreadBuffer(q)))
  BY ReadsIs
<1>2. Proper(sequence)
  BY <1>1, ProperIs
<1>3. AdvanceAcross(q, k) = AcrossTurn(q, k)
  BY <1>1, <1>2, AcrossUnfolds
<1>4. Left(q) = Len(UnreadBuffer(q)) /\ Left(q) \in Nat /\ Arrives(sequence, q, at + Left(q), ToEnd(q))
  BY ToEndIs
<1>5. /\ q.index \in Nat /\ Len(q.buffer) \in Nat /\ Left(q) = Len(q.buffer) - q.index
  BY <1>1 DEF Sees, Left
<1>6. CASE ~q.more
  <2>1. at = to
    BY <1>1, <1>6
  <2>2. AdvanceAcross(q, k) = q
    BY <1>3, <1>6 DEF AcrossTurn
  <2> QED BY <2>1, <2>2 DEF Arrives
<1>7. CASE q.more /\ Left(q) > k
  <2>1. AdvanceAcross(q, k) = [q EXCEPT !.index = @ + k]
    BY <1>3, <1>7 DEF AcrossTurn
  <2>2. PICK i \in Nat : i = q.index + k
    BY <1>5
  <2>3. i < Len(q.buffer) /\ to + q.index = at + i
    BY <1>4, <1>5, <1>7, <2>2
  <2>4. q.more = TRUE
    BY <1>1, <1>7
  <2>5. AdvanceAcross(q, k) = Shifted(q, i, q.consumed, TRUE)
    BY <1>1, <2>1, <2>2, <2>4 DEF Shifted, Readers
  <2>6. ShiftsTo(q, i, q.consumed, TRUE, AdvanceAcross(q, k))
    BY <1>1, <2>5, ShiftedIs
  <2>7. Reads(sequence, AdvanceAcross(q, k), to)
    BY <1>1, <2>3, <2>6, ShiftedReads
  <2> QED BY <2>6, <2>7 DEF Arrives, ShiftsTo
<1>8. CASE q.more /\ Left(q) = k
  <2>1. AdvanceAcross(q, k) = ToEnd(q)
    <3>1. ~(Left(q) > k)
      BY <1>4, <1>8
    <3> QED BY <1>3, <1>8, <3>1 DEF AcrossTurn
  <2> QED BY <1>4, <1>8, <2>1
<1>9. CASE q.more /\ Left(q) < k
  <2>1. AdvanceAcross(q, k) = AdvanceAcross(ToEnd(q), k - Left(q))
    <3>1. ~(Left(q) > k) /\ Left(q) # k
      BY <1>4, <1>9
    <3> QED BY <1>3, <1>9, <3>1 DEF AcrossTurn
  <2>2. 0 < Left(q)
    BY <1>1, <1>4, <1>9
  <2>3. PICK j \in Nat, b \in Nat : j = k - Left(q) /\ b = at + Left(q)
    BY <1>4, <1>9
  <2>4. j \in 0 .. k - 1 /\ to = b + j
    BY <1>4, <2>2, <2>3
  <2>5. Reads(sequence, ToEnd(q), b) /\ ToEnd(q).consumed = q.consumed
    BY <1>4, <2>3 DEF Arrives
  <2>6. Arrives(sequence, ToEnd(q), to, AdvanceAcross(ToEnd(q), j))
    BY <2>4, <2>5 DEF Crosses
  <2> QED BY <2>1, <2>3, <2>5, <2>6 DEF Arrives
<1>10. (Left(q) > k \/ Left(q) = k \/ Left(q) < k)
  BY <1>4
<1> QED BY <1>6, <1>7, <1>8, <1>9, <1>10

\* Advance's loop goes right for every count.
LEMMA AcrossIs ==
    ASSUME NEW n \in Nat
    PROVE  Crosses(n)
<1> DEFINE S == {c \in 0 .. n : Crosses(c)}
<1>1. ASSUME NEW k \in 0 .. n, \A j \in 0 .. k - 1 : j \in S PROVE k \in S
  <2>1. k \in Nat /\ \A j \in 0 .. k - 1 : Crosses(j)
    BY <1>1
  <2>2. Crosses(k)
    BY <2>1, CrossesOn
  <2> QED BY <2>2
<1> HIDE DEF S
<1>2. n \in S
  BY <1>1, FromBelow
<1> QED BY <1>2 DEF S

\* Advance goes n elements on, and counts them or not.
Advances(s, q, n, to, r) == Reads(s, r, to) /\ r.consumed \in {q.consumed, q.consumed + n}

\* Advance goes n elements further; it counts all of them or none.
LEMMA AdvancedIs ==
    ASSUME NEW q, NEW at \in Nat, Reads(sequence, q, at), NEW n \in Nat,
           NEW to \in Nat, to = at + n, to <= Total(sequence)
    PROVE  Advances(sequence, q, n, to, Advanced(q, n))
<1>1. /\ InBuffer(sequence, q, at) /\ Sees(sequence, q, at) /\ q \in Readers /\ q.consumed \in Nat
      /\ q.more \in BOOLEAN
      /\ (q.more <=> 0 < Len(UnreadBuffer(q)))
  BY ReadsIs
<1>2. /\ q.index \in Nat /\ Len(q.buffer) \in Nat /\ Len(UnreadBuffer(q)) = Len(q.buffer) - q.index
  BY <1>1 DEF Sees
<1>3. CASE Len(q.buffer) - q.index > n
  <2>1. Advanced(q, n) = [q EXCEPT !.index = @ + n, !.consumed = @ + n]
    BY <1>3 DEF Advanced
  <2>2. PICK i \in Nat, c \in Nat : i = q.index + n /\ c = q.consumed + n
    BY <1>1, <1>2
  <2>3. i < Len(q.buffer) /\ to + q.index = at + i /\ 0 < Len(UnreadBuffer(q))
    BY <1>2, <1>3, <2>2
  <2>4. q.more = TRUE
    BY <1>1, <2>3
  <2>5. Advanced(q, n) = Shifted(q, i, c, TRUE)
    BY <1>1, <2>1, <2>2, <2>4 DEF Shifted, Readers
  <2>6. ShiftsTo(q, i, c, TRUE, Advanced(q, n))
    BY <1>1, <2>5, ShiftedIs
  <2>7. Reads(sequence, Advanced(q, n), to)
    BY <1>1, <2>3, <2>6, ShiftedReads
  <2> QED BY <2>2, <2>6, <2>7 DEF Advances, ShiftsTo
<1>4. CASE ~(Len(q.buffer) - q.index > n)
  <2>1. Advanced(q, n) = AdvanceAcross(q, n)
    BY <1>4 DEF Advanced
  <2>2. Crosses(n)
    BY AcrossIs
  <2>3. Arrives(sequence, q, to, AdvanceAcross(q, n))
    BY <2>2 DEF Crosses
  <2> QED BY <2>1, <2>3 DEF Advances, Arrives
<1> QED BY <1>3, <1>4

-----------------------------------------------------------------------------
(* The beginning, and Rewind.                                              *)

\* Before it looks for data, a new reader stands at the begin of the sequence.
LEMMA AtBeginIs ==
    ASSUME Proper(sequence)
    PROVE  /\ InBuffer(sequence, AtBegin, 0)
           /\ AtBegin.index = 0 /\ AtBegin.consumed = 0 /\ AtBegin.buffer = First(sequence)
           /\ AtBegin.more = (First(sequence) # <<>>) /\ AtBegin.more \in BOOLEAN
           /\ Len(First(sequence)) \in Nat /\ (First(sequence) = <<>> <=> Len(First(sequence)) = 0)
<1> DEFINE s == sequence
<1>1. s \in [segments : Seq(Seq(Elems)), begin : Positions, end : Positions]
  BY DEF Proper, Window, NullSequence
<1>2. First(s) \in Seq(Elems)
  <2>1. CASE Window(s)
    <3>1. Listed(s) /\ Placed(s, s.end) /\ Within(s, s.begin)
      BY <2>1, WindowListed DEF Within
    <3>2. PartIs(Buffer(s, s.begin), Whole(s), Place(s, s.begin), Upto(s, s.begin.segment))
      BY <3>1, BufferIs
    <3>3. Buffer(s, s.begin) \in Seq(Elems) /\ <<>> \in Seq(Elems)
      BY <3>2 DEF PartIs
    <3> HIDE DEF s
    <3> QED BY <3>3 DEF First
  <2>2. CASE NullSequence(s)
    <3>1. First(s) = <<>>
      BY <2>2, NullIs
    <3> QED BY <3>1
  <2> QED BY <2>1, <2>2 DEF Proper
<1>3. PICK f \in Seq(Elems) : f = First(s)
  BY <1>2
<1>4. Len(f) \in Nat /\ (f = <<>> <=> Len(f) = 0)
  BY EmptySeq
<1>5. s.begin \in Positions /\ s.begin.segment \in Nat
  BY <1>1, PositionTyped
<1>6. NextBuffer(s, s.begin) \in Positions
  BY <1>5, NextIs
<1> DEFINE m == f # <<>>
           n == NextBuffer(s, s.begin)
<1>7. AtBegin = [current |-> s.begin, next |-> n, buffer |-> f, index |-> 0, consumed |-> 0, more |-> m]
  BY <1>3 DEF AtBegin
<1>8. m \in BOOLEAN
  OBVIOUS
<1> HIDE DEF m, n, s
<1>9. AtBegin \in Readers
  BY <1>5, <1>6, <1>7, <1>8 DEF Readers, n
<1>10. /\ AtBegin.current = s.begin /\ AtBegin.next = n /\ AtBegin.buffer = f /\ AtBegin.index = 0
       /\ AtBegin.consumed = 0 /\ AtBegin.more = m
  BY <1>7
<1>11. InBuffer(s, AtBegin, 0)
  <2>1. AtBegin.next = NextBuffer(s, AtBegin.current) /\ AtBegin.index <= Len(AtBegin.buffer)
    BY <1>4, <1>10 DEF n
  <2>2. CASE Window(s)
    <3>1. Within(s, s.begin) /\ s.begin # NullPosition
      <4>1. s.begin.segment \in 1 .. Len(s.segments)
        BY <2>2 DEF Window, Placed, InList
      <4>2. s.begin # NullPosition
        BY <1>5, <4>1, PositionTyped
      <4> QED BY <2>2, <4>2, WindowListed
    <3>2. f = Buffer(s, s.begin)
      BY <1>3, <3>1 DEF First
    <3>3. Place(s, s.begin) = Lo(s)
      BY DEF Lo
    <3>4. Place(s, AtBegin.current) + AtBegin.index = Lo(s) + 0
      BY <1>10, <3>3
    <3>5. /\ Within(s, AtBegin.current) /\ AtBegin.buffer = Buffer(s, AtBegin.current)
          /\ s.begin.segment <= AtBegin.current.segment
      BY <1>5, <1>10, <3>1, <3>2
    <3> QED BY <1>9, <2>1, <2>2, <3>4, <3>5 DEF InBuffer
  <2>3. CASE NullSequence(s)
    <3>1. f = <<>>
      BY <1>3, <2>3, NullIs
    <3>2. s.begin = NullPosition
      BY <2>3 DEF NullSequence
    <3> QED BY <1>9, <1>10, <2>1, <2>3, <3>1, <3>2 DEF InBuffer
  <2> QED BY <2>2, <2>3 DEF Proper, s
<1> QED BY <1>3, <1>4, <1>8, <1>10, <1>11 DEF m, s

Starts(s, r) == Reads(s, r, 0) /\ r.consumed = 0

\* If the first buffer is empty, the reader looks for another one.
LEMMA LooksFurther ==
    ASSUME Proper(sequence), First(sequence) = <<>>
    PROVE  /\ Starts(sequence, MoveToNextBuffer([AtBegin EXCEPT !.more = TRUE]))
           /\ IsSingleSegment(sequence) => Starts(sequence, AtBegin)
<1> DEFINE b == AtBegin
           r == [AtBegin EXCEPT !.more = TRUE]
<1>1. /\ InBuffer(sequence, b, 0) /\ b.index = 0 /\ b.consumed = 0 /\ b.buffer = First(sequence)
      /\ b.more = FALSE /\ Len(First(sequence)) = 0
  BY AtBeginIs
<1>2. b \in Readers
  BY <1>1 DEF InBuffer
<1>3. r = Shifted(b, 0, 0, TRUE)
  <2> HIDE DEF b
  <2> QED BY <1>1, <1>2 DEF Shifted, Readers, b
<1>4. Reads(sequence, MovedOn(sequence, b), 0) /\ MovedOn(sequence, b).consumed = 0
  <2> HIDE DEF b
  <2> QED BY <1>1, MoveIs
<1>5. IsSingleSegment(sequence) => MovedOn(sequence, b) = b
  <2> SUFFICES ASSUME IsSingleSegment(sequence) PROVE MovedOn(sequence, b) = b
    OBVIOUS
  <2> HIDE DEF b
  <2>1. MovedOn(sequence, b) = [b EXCEPT !.more = FALSE]
    BY DEF MovedOn
  <2> QED BY <1>1, <1>2, <2>1 DEF Readers
<1> HIDE DEF b, r
<1>6. ShiftsTo(b, 0, 0, TRUE, r)
  BY <1>2, <1>3, ShiftedIs
<1>7. InBuffer(sequence, r, 0)
  <2>1. PICK z \in Nat : z = 0
    OBVIOUS
  <2>2. PICK t : t = TRUE
    OBVIOUS
  <2>3. z <= Len(b.buffer) /\ z + b.index = z + z
    BY <1>1, <2>1
  <2>4. InBuffer(sequence, r, z)
    <3>1. ShiftsTo(b, z, z, t, r) /\ InBuffer(sequence, b, z)
      BY <1>1, <1>6, <2>1, <2>2
    <3> QED BY <2>3, <3>1, ShiftedInBuffer
  <2> QED BY <2>1, <2>4
<1>8. r.index = Len(r.buffer) /\ r.consumed = 0
  BY <1>1, <1>6 DEF ShiftsTo
<1>9. Reads(sequence, MovedOn(sequence, r), 0) /\ MovedOn(sequence, r).consumed = 0
  BY <1>7, <1>8, MoveIs
<1> QED BY <1>4, <1>5, <1>9, MoveIsMovedOn DEF Starts, b, r

\* The constructor and Reset leave the reader at the begin, in the first buffer with data.
LEMMA BeginIs ==
    ASSUME Proper(sequence)
    PROVE  Starts(sequence, NewReader) /\ Starts(sequence, Reset)
<1>1. /\ InBuffer(sequence, AtBegin, 0) /\ AtBegin.index = 0 /\ AtBegin.consumed = 0
      /\ AtBegin.buffer = First(sequence) /\ AtBegin.more = (First(sequence) # <<>>)
      /\ Len(First(sequence)) \in Nat /\ (First(sequence) = <<>> <=> Len(First(sequence)) = 0)
  BY AtBeginIs
<1>2. CASE First(sequence) = <<>>
  <2>1. /\ Starts(sequence, MoveToNextBuffer([AtBegin EXCEPT !.more = TRUE]))
        /\ IsSingleSegment(sequence) => Starts(sequence, AtBegin)
    BY <1>2, LooksFurther
  <2>2. sequence.begin = NullPosition => IsSingleSegment(sequence)
    <3>1. CASE Window(sequence)
      <4>1. sequence.begin # NullPosition
        BY <3>1, PositionTyped DEF Window, Placed, InList
      <4> QED BY <4>1
    <3>2. CASE NullSequence(sequence)
      BY <3>2, NullIs
    <3> QED BY <3>1, <3>2 DEF Proper
  <2>3. AtBegin.more = FALSE
    BY <1>1, <1>2
  <2>4. Starts(sequence, NewReader)
    BY <2>1, <2>3 DEF NewReader
  <2>5. Starts(sequence, Reset)
    BY <1>1, <1>2, <2>1, <2>2 DEF Reset
  <2> QED BY <2>4, <2>5
<1>3. CASE First(sequence) # <<>>
  <2>1. AtBegin.more = TRUE /\ 0 < Len(First(sequence))
    <3>1. AtBegin.more = TRUE
      BY <1>1, <1>3
    <3>2. Len(First(sequence)) \in Nat /\ Len(First(sequence)) # 0
      BY <1>1, <1>3
    <3> QED BY <3>1, <3>2
  <2>2. (AtBegin.index < Len(AtBegin.buffer)) = TRUE
    BY <1>1, <2>1
  <2>3. AtBegin.more = (AtBegin.index < Len(AtBegin.buffer))
    BY <2>1, <2>2, Zenon
  <2>4. Starts(sequence, AtBegin)
    BY <1>1, <2>1, <2>3 DEF Reads, Starts
  <2>5. NewReader = AtBegin
    BY <2>1 DEF NewReader
  <2>6. Reset = AtBegin
    <3>1. AtBegin.buffer # <<>>
      BY <1>1, <1>3
    <3> QED BY <3>1, Zenon DEF Reset
  <2> QED BY <2>4, <2>5, <2>6
<1> QED BY <1>2, <1>3

\* Rewind goes back by n, or to the place that the count names.
Rewinds(s, q, at, n, r) ==
    \/ at - n \in Nat /\ Reads(s, r, at - n) /\ r.consumed = q.consumed - n
    \/ /\ q.consumed - n \in Nat /\ Reads(s, r, q.consumed - n)
       /\ r.consumed \in {0, q.consumed - n}

\* Rewind goes back n elements within the buffer; else it goes to the place the count names.
LEMMA RewoundIs ==
    ASSUME NEW q, NEW at \in Nat, Reads(sequence, q, at), NEW n \in Nat, n <= q.consumed, q.consumed <= at
    PROVE  Rewinds(sequence, q, at, n, Rewound(q, n))
<1>1. /\ InBuffer(sequence, q, at) /\ Sees(sequence, q, at) /\ q \in Readers /\ q.consumed \in Nat
      /\ q.more \in BOOLEAN
      /\ at <= Total(sequence) /\ Total(sequence) \in Nat
  BY ReadsIs
<1>2. q.index \in Nat /\ Len(q.buffer) \in Nat /\ q.index <= Len(q.buffer)
  BY <1>1 DEF Sees
<1>3. PICK to \in Nat, c \in Nat : to = at - n /\ c = q.consumed - n /\ c <= to /\ to <= Total(sequence) /\ c <= Total(sequence)
  <2>1. q.consumed \in Nat /\ at <= Total(sequence) /\ Total(sequence) \in Nat
    BY <1>1
  <2>2. at - n \in Nat /\ q.consumed - n \in Nat /\ q.consumed - n <= at - n
    BY <2>1
  <2>3. at - n <= Total(sequence) /\ q.consumed - n <= Total(sequence)
    BY <2>1, <2>2
  <2> QED BY <2>2, <2>3
<1>4. CASE n = 0
  <2>1. Rewound(q, n) = q
    BY <1>4 DEF Rewound
  <2>2. to = at /\ c = q.consumed
    BY <1>1, <1>3, <1>4
  <2> QED BY <1>3, <2>1, <2>2 DEF Rewinds
<1>5. CASE n # 0 /\ q.index >= n
  <2>1. Rewound(q, n) = [q EXCEPT !.consumed = @ - n, !.index = @ - n, !.more = TRUE]
    BY <1>5 DEF Rewound
  <2>2. PICK i \in Nat : i = q.index - n
    BY <1>2, <1>5
  <2>3. i < Len(q.buffer) /\ to + q.index = at + i
    BY <1>2, <1>3, <1>5, <2>2
  <2>4. Rewound(q, n) = Shifted(q, i, c, TRUE)
    BY <1>1, <1>3, <2>1, <2>2 DEF Shifted, Readers
  <2>5. ShiftsTo(q, i, c, TRUE, Rewound(q, n))
    BY <1>1, <2>4, ShiftedIs
  <2>6. Reads(sequence, Rewound(q, n), to)
    BY <1>1, <2>3, <2>5, ShiftedReads
  <2>7. Rewound(q, n).consumed = c
    BY <2>5 DEF ShiftsTo
  <2> QED BY <1>3, <2>6, <2>7 DEF Rewinds
<1>6. CASE n # 0 /\ ~(q.index >= n)
  <2>1. Rewound(q, n) = Advanced(Reset, c)
    BY <1>3, <1>6 DEF Rewound
  <2>2. Proper(sequence)
    BY <1>1, ProperIs
  <2>3. Reads(sequence, Reset, 0) /\ Reset.consumed = 0
    BY <2>2, BeginIs DEF Starts
  <2>4. PICK z \in Nat : z = 0
    OBVIOUS
  <2>5. Reads(sequence, Reset, z) /\ c = z + c
    BY <2>3, <2>4
  <2>6. Advances(sequence, Reset, c, c, Advanced(Reset, c))
    BY <1>3, <2>5, AdvancedIs
  <2>7. Reads(sequence, Rewound(q, n), c) /\ Rewound(q, n).consumed \in {0, c}
    BY <2>1, <2>3, <2>6 DEF Advances
  <2> QED BY <1>3, <2>7 DEF Rewinds
<1> QED BY <1>4, <1>5, <1>6

-----------------------------------------------------------------------------
(* AdvancePast.                                                            *)

\* r is behind the first n elements that follow, which q steps over.
Passes(s, q, at, values, n, r) ==
    /\ n \in Nat /\ Reads(s, r, at + n) /\ r.consumed = q.consumed + n
    /\ \A i \in 1 .. n : Elements(s)[at + i] \in values
    /\ at + n < Total(s) => Elements(s)[at + n + 1] \notin values

\* The elements of the buffer it steps over.
Runs(s, q, at, values, m) ==
    /\ m \in Nat /\ m <= Len(UnreadBuffer(q))
    /\ \A i \in 1 .. m : Elements(s)[at + i] \in values
    /\ m < Len(UnreadBuffer(q)) => Elements(s)[at + m + 1] \notin values

\* What AdvancePast skips of a buffer are values only; the next element in it is none.
LEMMA RunIs ==
    ASSUME NEW s, NEW q, NEW at \in Nat, Reads(s, q, at), NEW values
    PROVE  Runs(s, q, at, values, RunOf(q, values))
<1> DEFINE u == UnreadBuffer(q)
           i == FirstOther(u, values)
           m == RunOf(q, values)
           e == Elements(s)
<1>1. Sees(s, q, at)
  BY ReadsIs
<1>2. Len(u) \in Nat /\ \A j \in 1 .. Len(u) : u[j] = e[at + j]
  BY <1>1 DEF Sees
<1>3. FirstIn(Len(u), OthersIn(u, values), i)
  BY <1>2, FirstOtherIs
<1>4. m = IF i = 0 THEN Len(u) ELSE i - 1
  BY DEF RunOf
<1> HIDE DEF u, i, m, e
<1>5. i \in Nat /\ i <= Len(u)
  BY <1>3 DEF FirstIn
<1>6. CASE i = 0
  <2>1. m = Len(u)
    BY <1>4, <1>6
  <2>2. OthersIn(u, values) = {}
    BY <1>3, <1>6 DEF FirstIn
  <2>3. \A j \in 1 .. Len(u) : u[j] \in values
    BY <2>2 DEF OthersIn
  <2>4. \A j \in 1 .. m : e[at + j] \in values
    BY <1>2, <2>1, <2>3
  <2>5. ~(m < Len(u))
    BY <1>2, <2>1
  <2> QED BY <1>2, <2>1, <2>4, <2>5 DEF Runs, u, m, e
<1>7. CASE i # 0
  <2>1. m = i - 1 /\ m \in Nat /\ m < Len(u) /\ m + 1 = i
    BY <1>2, <1>4, <1>5, <1>7
  <2>2. i \in OthersIn(u, values) /\ \A j \in 1 .. i - 1 : j \notin OthersIn(u, values)
    BY <1>3, <1>7 DEF FirstIn
  <2>3. i \in 1 .. Len(u) /\ u[i] \notin values
    BY <2>2 DEF OthersIn
  <2>4. \A j \in 1 .. m : j \in 1 .. Len(u) /\ u[j] \in values
    <3> SUFFICES ASSUME NEW j \in 1 .. m PROVE j \in 1 .. Len(u) /\ u[j] \in values
      OBVIOUS
    <3>1. j \in 1 .. Len(u) /\ j \in 1 .. i - 1
      BY <1>2, <2>1
    <3>2. j \notin OthersIn(u, values)
      BY <2>2, <3>1
    <3> QED BY <3>1, <3>2 DEF OthersIn
  <2>5. \A j \in 1 .. m : e[at + j] \in values
    BY <1>2, <2>4
  <2>6. at + m + 1 = at + i
    BY <2>1
  <2>7. e[at + m + 1] \notin values
    BY <1>2, <2>3, <2>6
  <2>8. m <= Len(u)
    BY <1>2, <2>1
  <2> QED BY <2>1, <2>5, <2>7, <2>8 DEF Runs, u, m, e
<1> QED BY <1>6, <1>7

\* What follows a run follows the reader.
LEMMA PassesOn ==
    ASSUME NEW s, NEW q, q.consumed \in Nat, NEW at \in Nat, NEW values, NEW m \in Nat,
           NEW b \in Nat, b = at + m,
           \A i \in 1 .. m : Elements(s)[at + i] \in values,
           NEW p, p.consumed = q.consumed + m, NEW n, NEW r, Passes(s, p, b, values, n, r)
    PROVE  Passes(s, q, at, values, m + n, r)
<1> DEFINE e == Elements(s)
<1>1. /\ n \in Nat /\ Reads(s, r, b + n) /\ r.consumed = p.consumed + n
      /\ \A i \in 1 .. n : e[b + i] \in values
      /\ b + n < Total(s) => e[b + n + 1] \notin values
  BY DEF Passes
<1> HIDE DEF e
<1>2. m + n \in Nat /\ at + (m + n) = b + n /\ at + (m + n) + 1 = b + n + 1 /\ r.consumed = q.consumed + (m + n)
  BY <1>1
<1>3. ASSUME NEW i \in 1 .. m + n PROVE e[at + i] \in values
  <2>1. i \in Nat /\ 1 <= i /\ i <= m + n
    BY <1>1
  <2>2. CASE i <= m
    <3>1. i \in 1 .. m
      BY <2>1, <2>2
    <3> QED BY <3>1 DEF e
  <2>3. CASE ~(i <= m)
    <3>1. PICK j \in Nat : j = i - m
      BY <2>1, <2>3
    <3>2. j \in 1 .. n /\ b + j = at + i
      BY <1>1, <2>1, <2>3, <3>1
    <3> QED BY <1>1, <3>2
  <2> QED BY <2>2, <2>3
<1> QED BY <1>1, <1>2, <1>3 DEF Passes, e

PassesFrom(k, values) ==
    \A q : \A at \in Nat :
        Reads(sequence, q, at) /\ Total(sequence) = at + k =>
            \E n : Passes(sequence, q, at, values, n, AdvancedPast(q, values))

\* If AdvancePast's loop goes right where fewer elements are left, it does here.
LEMMA PassesFromBelow ==
    ASSUME NEW k \in Nat, NEW values, \A j \in 0 .. k - 1 : PassesFrom(j, values)
    PROVE  PassesFrom(k, values)
<1> SUFFICES ASSUME NEW q, NEW at \in Nat, Reads(sequence, q, at), Total(sequence) = at + k
             PROVE  \E n : Passes(sequence, q, at, values, n, AdvancedPast(q, values))
  BY DEF PassesFrom
<1> DEFINE s == sequence
           m == RunOf(q, values)
           p == PastMoved(q, values)
           l == Len(UnreadBuffer(q))
<1>1. /\ InBuffer(s, q, at) /\ Sees(s, q, at) /\ q \in Readers /\ q.consumed \in Nat /\ q.more \in BOOLEAN
      /\ at <= Total(s) /\ Total(s) \in Nat /\ (q.more <=> at < Total(s)) /\ (q.more <=> 0 < Len(UnreadBuffer(q)))
  BY ReadsIs
<1>2. q.index \in Nat /\ l \in Nat
  BY <1>1 DEF Sees
<1>3. AdvancedPast(q, values) = PastTurn(q, values)
  BY <1>1, ProperIs, PastUnfolds
<1>4. Runs(s, q, at, values, m)
  BY RunIs
<1>5. m \in Nat /\ m <= l
  BY <1>4 DEF Runs
<1>6. Goes(s, q, at, m, p)
  BY <1>5, AdvanceCurrentIs DEF PastMoved
<1>7. PICK b \in Nat : b = at + m
  BY <1>5
<1>8. Reads(s, p, b) /\ p.consumed = q.consumed + m /\ (m = l /\ p.more => p.index = 0) /\ (m < l => p.more /\ p.index = q.index + m)
  BY <1>6, <1>7 DEF Goes
<1>9. \A i \in 1 .. m : Elements(s)[at + i] \in values
  BY <1>4 DEF Runs
<1>10. m < l => Elements(s)[at + m + 1] \notin values
  BY <1>4 DEF Runs
<1> HIDE DEF m, p, l
<1>11. CASE m = 0
  <2>1. AdvancedPast(q, values) = q
    BY <1>3, <1>11 DEF PastTurn, m
  <2>2. at + 0 < Total(s) => Elements(s)[at + 0 + 1] \notin values
    <3>1. at + 0 < Total(s) => m < l
      BY <1>1, <1>2, <1>11 DEF l
    <3>2. at + 0 + 1 = at + m + 1
      BY <1>11
    <3> QED BY <1>10, <3>1, <3>2
  <2>3. Reads(s, q, at + 0) /\ q.consumed = q.consumed + 0
    BY <1>1
  <2>4. Passes(s, q, at, values, 0, q)
    BY <2>2, <2>3 DEF Passes
  <2> QED BY <2>1, <2>4
<1>12. CASE m # 0 /\ GoesOn(q, values)
  <2>1. AdvancedPast(q, values) = AdvancedPast(p, values)
    BY <1>3, <1>12 DEF PastTurn, m, p
  <2>2. PICK j \in Nat : j = k - m
    <3>1. Reads(s, p, b)
      BY <1>8
    <3>2. b <= Total(s)
      BY <3>1, ReadsIs
    <3>3. k - m \in Nat
      BY <1>5, <1>7, <3>2
    <3> QED BY <3>3
  <2>3. j \in 0 .. k - 1 /\ Total(s) = b + j
    BY <1>5, <1>7, <1>12, <2>2
  <2>4. PassesFrom(j, values)
    BY <2>3
  <2>5. PICK n : Passes(s, p, b, values, n, AdvancedPast(p, values))
    BY <1>8, <2>3, <2>4 DEF PassesFrom
  <2>6. Passes(s, q, at, values, m + n, AdvancedPast(p, values))
    <3> HIDE DEF s
    <3> QED BY <1>1, <1>5, <1>7, <1>8, <1>9, <2>5, PassesOn
  <2> QED BY <2>1, <2>6
<1>13. CASE m # 0 /\ ~GoesOn(q, values)
  <2>1. AdvancedPast(q, values) = p
    BY <1>3, <1>13 DEF PastTurn, m, p
  <2>2. p.index # 0 \/ ~p.more
    BY <1>13 DEF GoesOn, m, p
  <2>3. b < Total(s) => m < l
    <3> SUFFICES ASSUME b < Total(s) PROVE m < l
      OBVIOUS
    <3>1. p.more
      BY <1>8, ReadsIs
    <3>2. m # l
      BY <1>8, <2>2, <3>1
    <3> QED BY <1>2, <1>5, <3>2
  <2>4. at + m < Total(s) => Elements(s)[at + m + 1] \notin values
    BY <1>7, <1>10, <2>3
  <2>5. Passes(s, q, at, values, m, p)
    BY <1>5, <1>7, <1>8, <1>9, <2>4 DEF Passes
  <2> QED BY <2>1, <2>5
<1> QED BY <1>11, <1>12, <1>13

\* AdvancePast goes to the first element that is none of the values, and counts what it skips.
LEMMA AdvancedPastIs ==
    ASSUME NEW q, NEW at \in Nat, Reads(sequence, q, at), NEW values
    PROVE  \E n : Passes(sequence, q, at, values, n, AdvancedPast(q, values))
<1>1. PICK n \in Nat : Total(sequence) = at + n
  <2>1. at <= Total(sequence) /\ Total(sequence) \in Nat
    BY ReadsIs
  <2>2. Total(sequence) - at \in Nat /\ Total(sequence) = at + (Total(sequence) - at)
    BY <2>1
  <2> QED BY <2>2
<1> DEFINE S == {k \in 0 .. n : PassesFrom(k, values)}
<1>2. ASSUME NEW k \in 0 .. n, \A j \in 0 .. k - 1 : j \in S PROVE k \in S
  <2>1. k \in Nat /\ \A j \in 0 .. k - 1 : PassesFrom(j, values)
    BY <1>2
  <2>2. PassesFrom(k, values)
    BY <2>1, PassesFromBelow
  <2> QED BY <2>2
<1> HIDE DEF S
<1>3. n \in S
  BY <1>2, FromBelow
<1>4. PassesFrom(n, values)
  BY <1>3 DEF S
<1> QED BY <1>1, <1>4 DEF PassesFrom

-----------------------------------------------------------------------------
(* Up to a delimiter.                                                      *)

\* r is behind the first n elements that follow, none of them d, and at a d
\* if there is something left.
Finds(s, q, at, d, n, r) ==
    /\ n \in Nat /\ Reads(s, r, at + n) /\ r.consumed = q.consumed + n
    /\ \A i \in 1 .. n : Elements(s)[at + i] # d
    /\ r.more => Elements(s)[at + n + 1] = d

\* What FindFirstOf says of the buffer.
LEMMA DelimiterInIs ==
    ASSUME NEW s, NEW q, NEW at \in Nat, Reads(s, q, at), NEW d
    PROVE  /\ DelimiterIn(q, d) \in Nat /\ DelimiterIn(q, d) <= Len(UnreadBuffer(q)) /\ Len(UnreadBuffer(q)) \in Nat
           /\ DelimiterIn(q, d) = 0 => \A i \in 1 .. Len(UnreadBuffer(q)) : Elements(s)[at + i] # d
           /\ DelimiterIn(q, d) # 0 =>
                /\ Elements(s)[at + DelimiterIn(q, d)] = d
                /\ \A i \in 1 .. DelimiterIn(q, d) - 1 : Elements(s)[at + i] # d
<1> DEFINE u == UnreadBuffer(q)
           i == DelimiterIn(q, d)
           e == Elements(s)
<1>1. Sees(s, q, at)
  BY ReadsIs
<1>2. Len(u) \in Nat /\ \A j \in 1 .. Len(u) : u[j] = e[at + j]
  BY <1>1 DEF Sees
<1>3. FirstIn(Len(u), PlacesOf(u, d), i)
  BY <1>2, FindFirstIs DEF DelimiterIn
<1> HIDE DEF u, i, e
<1>4. i \in Nat /\ i <= Len(u)
  BY <1>3 DEF FirstIn
<1>5. ASSUME i = 0 PROVE \A j \in 1 .. Len(u) : e[at + j] # d
  <2>1. PlacesOf(u, d) = {}
    BY <1>3, <1>5 DEF FirstIn
  <2>2. \A j \in 1 .. Len(u) : u[j] # d
    BY <2>1 DEF PlacesOf
  <2> QED BY <1>2, <2>2
<1>6. ASSUME i # 0 PROVE e[at + i] = d /\ \A j \in 1 .. i - 1 : e[at + j] # d
  <2>1. i \in PlacesOf(u, d) /\ \A j \in 1 .. i - 1 : j \notin PlacesOf(u, d)
    BY <1>3, <1>6 DEF FirstIn
  <2>2. i \in 1 .. Len(u) /\ u[i] = d
    BY <2>1 DEF PlacesOf
  <2>3. ASSUME NEW j \in 1 .. i - 1 PROVE e[at + j] # d
    <3>1. j \in 1 .. Len(u)
      BY <1>2, <1>4
    <3>2. u[j] # d
      BY <2>1, <3>1 DEF PlacesOf
    <3> QED BY <1>2, <3>1, <3>2
  <2> QED BY <1>2, <2>2, <2>3
<1> QED BY <1>2, <1>4, <1>5, <1>6 DEF u, i, e

\* A delimiter found behind m other elements is the first.
LEMMA FindsOn ==
    ASSUME NEW s, NEW q, q.consumed \in Nat, NEW at \in Nat, NEW d, NEW m \in Nat, NEW b \in Nat, b = at + m,
           \A i \in 1 .. m : Elements(s)[at + i] # d,
           NEW p, p.consumed = q.consumed + m, NEW n, NEW r, Finds(s, p, b, d, n, r)
    PROVE  Finds(s, q, at, d, m + n, r)
<1> DEFINE e == Elements(s)
<1>1. /\ n \in Nat /\ Reads(s, r, b + n) /\ r.consumed = p.consumed + n
      /\ \A i \in 1 .. n : e[b + i] # d
      /\ r.more => e[b + n + 1] = d
  BY DEF Finds
<1> HIDE DEF e
<1>2. m + n \in Nat /\ at + (m + n) = b + n /\ at + (m + n) + 1 = b + n + 1 /\ r.consumed = q.consumed + (m + n)
  BY <1>1
<1>3. ASSUME NEW i \in 1 .. m + n PROVE e[at + i] # d
  <2>1. i \in Nat /\ 1 <= i /\ i <= m + n
    BY <1>1
  <2>2. CASE i <= m
    <3>1. i \in 1 .. m
      BY <2>1, <2>2
    <3> QED BY <3>1 DEF e
  <2>3. CASE ~(i <= m)
    <3>1. PICK j \in Nat : j = i - m
      BY <2>1, <2>3
    <3>2. j \in 1 .. n /\ b + j = at + i
      BY <1>1, <2>1, <2>3, <3>1
    <3> QED BY <1>1, <3>2
  <2> QED BY <2>2, <2>3
<1> QED BY <1>1, <1>2, <1>3 DEF Finds, e

FindsFrom(k, d) ==
    \A q : \A at \in Nat :
        Reads(sequence, q, at) /\ Total(sequence) = at + k =>
            \E n : Finds(sequence, q, at, d, n, AtDelimiter(q, d))

\* If TryReadToImpl's loop goes right where fewer elements are left, it does here.
LEMMA FindsFromBelow ==
    ASSUME NEW k \in Nat, NEW d, \A j \in 0 .. k - 1 : FindsFrom(j, d)
    PROVE  FindsFrom(k, d)
<1> SUFFICES ASSUME NEW q, NEW at \in Nat, Reads(sequence, q, at), Total(sequence) = at + k
             PROVE  \E n : Finds(sequence, q, at, d, n, AtDelimiter(q, d))
  BY DEF FindsFrom
<1> DEFINE s == sequence
           i == DelimiterIn(q, d)
           l == Len(UnreadBuffer(q))
           r == AtDelimiter(q, d)
<1>1. /\ InBuffer(s, q, at) /\ q \in Readers /\ q.consumed \in Nat /\ q.more \in BOOLEAN
      /\ (q.more <=> 0 < Len(UnreadBuffer(q)))
  BY ReadsIs
<1>2. r = DelimiterTurn(q, d)
  BY <1>1, ProperIs, DelimiterUnfolds
<1>3. i \in Nat /\ i <= l /\ l \in Nat
  BY DelimiterInIs
<1>4. i = 0 => \A j \in 1 .. l : Elements(s)[at + j] # d
  BY DelimiterInIs
<1>5. i # 0 => Elements(s)[at + i] = d /\ \A j \in 1 .. i - 1 : Elements(s)[at + j] # d
  BY DelimiterInIs
<1>6. CASE ~q.more
  <2>1. r = q
    BY <1>2, <1>6 DEF DelimiterTurn
  <2>2. Reads(s, q, at + 0) /\ q.consumed = q.consumed + 0
    BY <1>1
  <2>3. Finds(s, q, at, d, 0, q)
    BY <1>6, <2>2 DEF Finds
  <2> QED BY <2>1, <2>3
<1>7. CASE q.more /\ i = 0
  <2> DEFINE p == Emptied(q)
  <2>1. r = AtDelimiter(p, d)
    BY <1>2, <1>7 DEF DelimiterTurn
  <2>2. Goes(s, q, at, l, p)
    <3>1. l <= l
      BY <1>3
    <3> QED BY <1>3, <3>1, AdvanceCurrentIs DEF Emptied
  <2> HIDE DEF i, l, p
  <2>3. PICK b \in Nat : b = at + l
    BY <1>3
  <2>4. Reads(s, p, b) /\ p.consumed = q.consumed + l
    BY <2>2, <2>3 DEF Goes
  <2>5. b <= Total(s)
    BY <2>4, ReadsIs
  <2>6. 0 < l
    BY <1>1, <1>7 DEF l
  <2>7. PICK j \in Nat : j \in 0 .. k - 1 /\ Total(s) = b + j
    <3>1. k - l \in 0 .. k - 1 /\ Total(s) = b + (k - l)
      BY <1>3, <2>3, <2>5, <2>6
    <3> QED BY <3>1
  <2>8. PICK n : Finds(s, p, b, d, n, AtDelimiter(p, d))
    <3>1. FindsFrom(j, d)
      BY <2>7
    <3> QED BY <2>4, <2>7, <3>1 DEF FindsFrom
  <2>9. \A h \in 1 .. l : Elements(s)[at + h] # d
    BY <1>4, <1>7
  <2> HIDE DEF s
  <2>10. Finds(s, q, at, d, l + n, AtDelimiter(p, d))
    BY <1>1, <1>3, <2>3, <2>4, <2>8, <2>9, FindsOn
  <2> QED BY <2>1, <2>10 DEF s
<1>8. CASE q.more /\ i # 0
  <2>1. PICK m \in Nat : m = i - 1
    BY <1>3, <1>8
  <2>2. m <= l /\ m < l /\ at + m + 1 = at + i
    BY <1>3, <1>8, <2>1
  <2>3. r = AdvanceCurrentBuffer(q, m)
    BY <1>2, <1>8, <2>1 DEF DelimiterTurn
  <2>4. Goes(s, q, at, m, r)
    BY <2>2, <2>3, AdvanceCurrentIs
  <2>5. Reads(s, r, at + m) /\ r.consumed = q.consumed + m
    BY <2>4 DEF Goes
  <2>6. Elements(s)[at + m + 1] = d /\ \A j \in 1 .. m : Elements(s)[at + j] # d
    BY <1>5, <1>8, <2>1, <2>2
  <2>7. Finds(s, q, at, d, m, r)
    BY <2>5, <2>6 DEF Finds
  <2> QED BY <2>7
<1> QED BY <1>6, <1>7, <1>8

\* TryReadToImpl's loop stops at the next delimiter, or at the end if there is none.
LEMMA AtDelimiterIs ==
    ASSUME NEW q, NEW at \in Nat, Reads(sequence, q, at), NEW d
    PROVE  \E n : Finds(sequence, q, at, d, n, AtDelimiter(q, d))
<1>1. PICK n \in Nat : Total(sequence) = at + n
  <2>1. at <= Total(sequence) /\ Total(sequence) \in Nat
    BY ReadsIs
  <2>2. Total(sequence) - at \in Nat /\ Total(sequence) = at + (Total(sequence) - at)
    BY <2>1
  <2> QED BY <2>2
<1> DEFINE S == {k \in 0 .. n : FindsFrom(k, d)}
<1>2. ASSUME NEW k \in 0 .. n, \A j \in 0 .. k - 1 : j \in S PROVE k \in S
  <2>1. k \in Nat /\ \A j \in 0 .. k - 1 : FindsFrom(j, d)
    BY <1>2
  <2>2. FindsFrom(k, d)
    BY <2>1, FindsFromBelow
  <2> QED BY <2>2
<1> HIDE DEF S
<1>3. n \in S
  BY <1>2, FromBelow
<1>4. FindsFrom(n, d)
  BY <1>3 DEF S
<1> QED BY <1>1, <1>4 DEF FindsFrom

-----------------------------------------------------------------------------
(* Positions, and the sequences between them.                              *)

\* p is behind the first at elements.
Found(s, p, at) ==
    /\ at \in Nat /\ at <= Total(s)
    /\ \/ Window(s) /\ Within(s, p) /\ Place(s, p) = Lo(s) + at
       \/ NullSequence(s) /\ p = NullPosition /\ at = 0

\* It is the end or the last position that is, as Seek finds them.
Settled(s, p) == Window(s) => p = s.end \/ \E o, n : Sought(s, o, n, p)

\* The number of elements is the length GetLength says.
LEMMA TotalIs ==
    ASSUME NEW s, Proper(s)
    PROVE  /\ Total(s) \in Nat /\ Elements(s) \in Seq(Elems) /\ GetLength(s) = Total(s)
           /\ Window(s) => Total(s) = Hi(s) - Lo(s) /\ Lo(s) \in Nat /\ Hi(s) \in Nat /\ Lo(s) <= Hi(s)
<1>1. CASE Window(s)
  BY <1>1, WindowIs, WindowSpan DEF Total
<1>2. CASE NullSequence(s)
  <2>1. Elements(s) = <<>> /\ Total(s) = 0 /\ GetLength(s) = 0 /\ ~Window(s)
    BY <1>2, NullIs, NotBoth
  <2>2. Elements(s) \in Seq(Elems)
    BY <2>1
  <2> QED BY <2>1, <2>2
<1> QED BY <1>1, <1>2 DEF Proper

LEMMA FoundIndex ==
    ASSUME NEW s, NEW p, NEW at, Found(s, p, at)
    PROVE  FlatIndex(s, p) - FlatIndex(s, s.begin) = at
<1>1. at \in Nat
  BY DEF Found
<1>2. CASE Window(s) /\ Within(s, p) /\ Place(s, p) = Lo(s) + at
  <2>1. FlatIndex(s, p) = Lo(s) + at
    <3>1. Placed(s, p)
      BY <1>2 DEF Within
    <3>2. FlatIndex(s, p) = Place(s, p)
      BY <3>1, FlatIndexIs
    <3> QED BY <1>2, <3>2
  <2>2. FlatIndex(s, s.begin) = Lo(s) /\ Lo(s) \in Nat
    BY <1>2, WindowIs, WindowSpan
  <2> QED BY <1>1, <2>1, <2>2
<1>3. CASE NullSequence(s) /\ p = NullPosition /\ at = 0
  <2>1. p = s.begin
    BY <1>3 DEF NullSequence
  <2>2. FlatIndex(s, s.begin) = 0
    BY <1>3, NullIs
  <2> QED BY <1>3, <2>1, <2>2
<1> QED BY <1>2, <1>3 DEF Found

\* The two ends of a sequence are at no elements and at all of them.
LEMMA EndsFound ==
    ASSUME NEW s, Proper(s)
    PROVE  Found(s, s.begin, 0) /\ Found(s, s.end, Total(s)) /\ Settled(s, s.end)
<1>1. Total(s) \in Nat /\ (Window(s) => Total(s) = Hi(s) - Lo(s) /\ Lo(s) \in Nat /\ Hi(s) \in Nat /\ Lo(s) <= Hi(s))
  BY TotalIs
<1>2. Settled(s, s.end)
  BY DEF Settled
<1>3. CASE Window(s)
  <2>1. Within(s, s.begin) /\ Within(s, s.end)
    BY <1>3, WindowListed
  <2>2. Place(s, s.begin) = Lo(s) /\ Place(s, s.end) = Hi(s)
    BY DEF Lo, Hi
  <2>3. Lo(s) = Lo(s) + 0 /\ Hi(s) = Lo(s) + Total(s) /\ 0 <= Total(s)
    BY <1>1, <1>3
  <2> QED BY <1>1, <1>2, <1>3, <2>1, <2>2, <2>3 DEF Found
<1>4. CASE NullSequence(s)
  <2>1. Total(s) = 0 /\ s.begin = NullPosition /\ s.end = NullPosition
    BY <1>4, NullIs DEF NullSequence
  <2> QED BY <1>2, <1>4, <2>1 DEF Found
<1> QED BY <1>3, <1>4 DEF Proper

\* Seek finds the position n elements further.
LEMMA SeekFound ==
    ASSUME NEW s, Window(s), NEW p, NEW from, Found(s, p, from), NEW n \in Nat,
           NEW to \in Nat, to = from + n, to <= Total(s)
    PROVE  Found(s, Seek(s, p, n), to) /\ Settled(s, Seek(s, p, n))
<1> DEFINE q == Seek(s, p, n)
<1>1. Within(s, p) /\ Place(s, p) = Lo(s) + from /\ from \in Nat
  BY NotBoth DEF Found
<1>2. Listed(s) /\ Placed(s, s.end)
  BY WindowListed DEF Within
<1>3. Total(s) = Hi(s) - Lo(s) /\ Lo(s) \in Nat /\ Hi(s) \in Nat
  BY TotalIs DEF Proper
<1>4. Place(s, p) + n = Lo(s) + to /\ Place(s, p) + n <= Hi(s)
  BY <1>1, <1>3
<1>5. Sought(s, p, n, q)
  BY <1>1, <1>2, <1>4, SeekIs
<1> HIDE DEF q
<1>6. Within(s, q) /\ Place(s, q) = Lo(s) + to
  BY <1>4, <1>5 DEF Sought
<1>7. Settled(s, q)
  BY <1>5 DEF Settled
<1> QED BY <1>6, <1>7 DEF Found, q

\* The reader's position.
PositionIn(s, r) == IF r.current = NullPosition THEN NullPosition ELSE Seek(s, r.current, r.index)

\* Position() is where the reader stands.
LEMMA PositionFound ==
    ASSUME NEW s, NEW q, NEW at, InBuffer(s, q, at)
    PROVE  Found(s, PositionIn(s, q), at) /\ Settled(s, PositionIn(s, q))
<1>1. Sees(s, q, at) /\ Proper(s)
  BY SeesIs, ProperIs
<1>2. at \in Nat /\ at <= Total(s) /\ q.index \in Nat
  <2>1. /\ at \in Nat /\ q.index \in Nat /\ Total(s) \in Nat /\ Len(UnreadBuffer(q)) \in Nat
        /\ at + Len(UnreadBuffer(q)) <= Total(s)
    BY <1>1 DEF Sees
  <2> QED BY <2>1
<1>3. CASE Window(s)
  <2>1. Within(s, q.current) /\ Place(s, q.current) + q.index = Lo(s) + at
    BY <1>3, NotBoth DEF InBuffer
  <2>2. Listed(s) /\ Placed(s, s.end)
    BY <1>3, WindowListed DEF Within
  <2>3. Total(s) = Hi(s) - Lo(s) /\ Lo(s) \in Nat /\ Hi(s) \in Nat
    BY <1>3, TotalIs DEF Proper
  <2>4. Place(s, q.current) + q.index <= Hi(s)
    BY <1>2, <2>1, <2>3
  <2>5. Sought(s, q.current, q.index, Seek(s, q.current, q.index))
    BY <1>2, <2>1, <2>2, <2>4, SeekIs
  <2>6. PositionIn(s, q) = Seek(s, q.current, q.index)
    <3>1. q.current \in Positions /\ q.current.segment \in 1 .. Len(s.segments)
      BY <2>1 DEF Within, Placed, InList
    <3>2. q.current # NullPosition
      BY <3>1, PositionTyped
    <3> QED BY <3>2 DEF PositionIn
  <2>7. Within(s, PositionIn(s, q)) /\ Place(s, PositionIn(s, q)) = Lo(s) + at
    BY <2>1, <2>5, <2>6 DEF Sought
  <2>8. Settled(s, PositionIn(s, q))
    BY <2>5, <2>6 DEF Settled
  <2> QED BY <1>2, <1>3, <2>7, <2>8 DEF Found
<1>4. CASE NullSequence(s)
  <2>1. ~Window(s)
    BY <1>4, NotBoth
  <2>2. q.current = NullPosition /\ at = 0
    BY <1>4, <2>1 DEF InBuffer
  <2>3. PositionIn(s, q) = NullPosition
    BY <2>2 DEF PositionIn
  <2> QED BY <1>2, <1>4, <2>1, <2>2, <2>3 DEF Found, Settled
<1> QED BY <1>1, <1>3, <1>4 DEF Proper

\* t has the elements of s from one offset to another.
Cut(s, t, from, to) ==
    /\ Elements(t) = SubSeq(Elements(s), from + 1, to) /\ Elements(t) \in Seq(Elems)
    /\ Views(t)
    /\ GetLength(t) = to - from
    /\ IsSingleSegment(t) => First(t) = Elements(t)

\* A slice between two positions has the elements between them, in all its views.
LEMMA CutIs ==
    ASSUME NEW s, NEW p, NEW from, NEW q, NEW to, Found(s, p, from), Found(s, q, to), from <= to, Settled(s, q)
    PROVE  Cut(s, Subsequence(s, p, q), from, to)
<1> DEFINE t == Subsequence(s, p, q)
<1>1. from \in Nat /\ to \in Nat /\ to <= Total(s)
  BY DEF Found
<1>2. CASE Window(s)
  <2>1. Within(s, p) /\ Place(s, p) = Lo(s) + from /\ Within(s, q) /\ Place(s, q) = Lo(s) + to
    BY <1>2, NotBoth DEF Found
  <2>2. Listed(s) /\ Placed(s, s.end) /\ Placed(s, p) /\ Placed(s, q) /\ NotAfter(p, s.end)
    BY <1>2, <2>1, WindowListed DEF Within
  <2>3. Total(s) = Hi(s) - Lo(s) /\ Lo(s) \in Nat /\ Hi(s) \in Nat
    BY <1>2, TotalIs DEF Proper
  <2>4. Place(s, p) <= Place(s, q)
    BY <1>1, <2>1, <2>3
  <2>5. NotAfter(p, q)
    <3>1. CASE q = s.end
      BY <2>2, <3>1
    <3>2. CASE q # s.end
      <4>1. PICK o, n : Sought(s, o, n, q)
        BY <1>2, <3>2 DEF Settled
      <4> QED BY <2>1, <2>2, <2>4, <4>1, SoughtOrder
    <3> QED BY <3>1, <3>2
  <2>6. to <= Hi(s) - Lo(s)
    BY <1>1, <2>3
  <2>7. Elements(t) = SubSeq(Elements(s), from + 1, to) /\ Views(t) /\ GetLength(t) = to - from
    BY <1>1, <1>2, <2>1, <2>2, <2>5, <2>6, SubElements
  <2>8. Window(t)
    BY <1>2, <2>2, <2>5, SubWindow
  <2> HIDE DEF t
  <2>9. Elements(t) \in Seq(Elems) /\ (IsSingleSegment(t) => First(t) = Elements(t))
    BY <2>8, WindowIs, SingleIs
  <2> QED BY <2>7, <2>9 DEF Cut, t
<1>3. CASE NullSequence(s) /\ ~Window(s)
  <2>1. p = NullPosition /\ q = NullPosition /\ from = 0 /\ to = 0
    BY <1>3 DEF Found
  <2>2. t = s
    BY <1>3, <2>1 DEF Subsequence, NullSequence
  <2> HIDE DEF t
  <2>3. Elements(t) = <<>> /\ GetLength(t) = 0 /\ First(t) = <<>> /\ Views(t)
    BY <1>3, <2>2, NullIs
  <2>4. Elements(t) = SubSeq(Elements(s), 0 + 1, 0)
    <3>1. SubSeq(Elements(s), 1, 0) = <<>>
      BY SubSeqEmpty
    <3> QED BY <2>3, <3>1
  <2>5. Elements(t) \in Seq(Elems)
    BY <2>3
  <2> QED BY <2>1, <2>3, <2>4, <2>5 DEF Cut, t
<1> QED BY <1>2, <1>3, NotBoth DEF Found

\* What is left, by the positions.
LEMMA RestIs ==
    ASSUME NEW s, NEW q, NEW at, InBuffer(s, q, at)
    PROVE  Cut(s, Subsequence(s, PositionIn(s, q), s.end), at, Total(s))
<1>1. Found(s, PositionIn(s, q), at) /\ Proper(s)
  BY PositionFound, ProperIs
<1>2. Found(s, s.end, Total(s)) /\ Settled(s, s.end)
  BY <1>1, EndsFound
<1>3. at <= Total(s)
  BY <1>1 DEF Found
<1> QED BY <1>1, <1>2, <1>3, CutIs

\* What lies between two places of the reader.
LEMMA BetweenIs ==
    ASSUME NEW s, NEW q, NEW from, InBuffer(s, q, from), NEW r, NEW to, InBuffer(s, r, to), from <= to
    PROVE  Cut(s, Subsequence(s, PositionIn(s, q), PositionIn(s, r)), from, to)
BY PositionFound, CutIs

-----------------------------------------------------------------------------
(* TryReadTo.                                                              *)

Behind(n, past) == IF past THEN n + 1 ELSE n

\* The first n elements that follow q are read, up to the delimiter d; or there is none.
ReadsTo(s, q, at, d, past, n, read) ==
    /\ n \in Nat /\ at + n <= Total(s) /\ read.found \in BOOLEAN
    /\ \A i \in 1 .. n : Elements(s)[at + i] # d
    /\ ~read.found => at + n = Total(s) /\ read.reader = q
    /\ read.found =>
         /\ at + n < Total(s) /\ Elements(s)[at + n + 1] = d
         /\ Reads(s, read.reader, at + Behind(n, past))
         /\ read.reader.consumed \in q.consumed .. q.consumed + Behind(n, past)
         /\ Cut(s, read.sequence, at, at + n)

\* TryReadToImpl delivers what lies before the next delimiter, or puts the reader back.
LEMMA TryReadToImplIs ==
    ASSUME NEW q, NEW at \in Nat, Reads(sequence, q, at), NEW d, NEW past \in BOOLEAN,
           NEW skip \in Nat, at + skip <= Total(sequence), \A i \in 1 .. skip : Elements(sequence)[at + i] # d
    PROVE  \E n : ReadsTo(sequence, q, at, d, past, n, TryReadToImpl(q, d, past, skip))
<1> DEFINE s == sequence
           p == IF skip > 0 THEN Advanced(q, skip) ELSE q
           stop == AtDelimiter(p, d)
           read == TryReadToImpl(q, d, past, skip)
           e == Elements(s)
<1>1. InBuffer(s, q, at) /\ q.consumed \in Nat /\ at <= Total(s) /\ Total(s) \in Nat
  BY ReadsIs
<1>2. PICK b \in Nat : b = at + skip
  OBVIOUS
<1>3. Reads(s, p, b) /\ p.consumed \in {q.consumed, q.consumed + skip}
  <2>1. CASE skip > 0
    <3>1. Advances(s, q, skip, b, Advanced(q, skip))
      BY <1>2, AdvancedIs
    <3> QED BY <2>1, <3>1 DEF Advances
  <2>2. CASE ~(skip > 0)
    <3>1. b = at /\ p = q
      BY <1>2, <2>2
    <3> QED BY <3>1
  <2> QED BY <2>1, <2>2
<1>4. /\ read.found = stop.more
      /\ read.reader = IF ~stop.more THEN q ELSE IF past THEN Advanced(stop, 1) ELSE stop
      /\ read.sequence = Subsequence(s, PositionIn(s, q), PositionIn(s, stop))
  BY DEF TryReadToImpl, Position, PositionIn
<1> HIDE DEF p
<1>5. PICK k : Finds(s, p, b, d, k, stop)
  BY <1>3, AtDelimiterIs
<1> HIDE DEF stop, read, s
<1>6. k \in Nat /\ Reads(s, stop, b + k) /\ stop.consumed = p.consumed + k
  BY <1>5 DEF Finds
<1>7. PICK n \in Nat, to \in Nat : n = skip + k /\ to = at + n /\ to = b + k
  BY <1>2, <1>6
<1>8. /\ InBuffer(s, stop, to) /\ to <= Total(s) /\ (stop.more <=> to < Total(s)) /\ stop.more \in BOOLEAN
      /\ stop.consumed \in Nat
  BY <1>6, <1>7, ReadsIs
<1>9. ASSUME NEW i \in 1 .. n PROVE e[at + i] # d
  <2>1. CASE i <= skip
    <3>1. i \in 1 .. skip
      BY <2>1
    <3> QED BY <3>1 DEF s
  <2>2. CASE ~(i <= skip)
    <3>1. PICK j \in Nat : j = i - skip
      BY <2>2
    <3>2. j \in 1 .. k /\ b + j = at + i
      BY <1>2, <1>6, <1>7, <2>2, <3>1
    <3>3. \A h \in 1 .. k : e[b + h] # d
      BY <1>5 DEF Finds
    <3> QED BY <3>2, <3>3
  <2> QED BY <2>1, <2>2
<1>10. stop.more => e[to + 1] = d
  <2>1. stop.more => e[b + k + 1] = d
    BY <1>5 DEF Finds
  <2> QED BY <1>7, <2>1
<1>11. stop.consumed \in {q.consumed + k, q.consumed + skip + k}
  BY <1>3, <1>6
<1> HIDE DEF e
<1>12. CASE ~stop.more
  <2>1. at + n = Total(s)
    BY <1>1, <1>7, <1>8, <1>12
  <2>2. read.found = FALSE /\ read.reader = q
    BY <1>4, <1>8, <1>12
  <2>3. at + n <= Total(s)
    BY <1>7, <1>8
  <2>4. ReadsTo(s, q, at, d, past, n, read)
    BY <1>9, <2>1, <2>2, <2>3 DEF ReadsTo, e
  <2> QED BY <2>4 DEF s, read
<1>13. CASE stop.more
  <2>1. read.found = TRUE /\ to < Total(s) /\ e[to + 1] = d
    BY <1>4, <1>8, <1>10, <1>13
  <2>2. Cut(s, read.sequence, at, to)
    <3>1. at <= to
      BY <1>7
    <3> QED BY <1>1, <1>4, <1>8, <3>1, BetweenIs
  <2>3. PICK m \in Nat : m = Behind(n, past)
    BY DEF Behind
  <2>4. Reads(s, read.reader, at + m) /\ read.reader.consumed \in q.consumed .. q.consumed + m
    <3>1. CASE past
      <4>1. read.reader = Advanced(stop, 1)
        BY <1>4, <1>13, <3>1
      <4>2. PICK f \in Nat, one \in Nat : one = 1 /\ f = to + one /\ f <= Total(s)
        BY <1>1, <2>1
      <4>3. Reads(s, stop, to)
        BY <1>6, <1>7
      <4>4. Advances(s, stop, one, f, Advanced(stop, one))
        BY <4>2, <4>3, AdvancedIs DEF s
      <4>5. Reads(s, read.reader, f) /\ read.reader.consumed \in {stop.consumed, stop.consumed + 1}
        BY <4>1, <4>2, <4>4 DEF Advances
      <4>6. m = n + 1 /\ f = at + m
        BY <1>7, <2>3, <3>1, <4>2 DEF Behind
      <4>7. read.reader.consumed \in q.consumed .. q.consumed + m
        BY <1>1, <1>6, <1>7, <1>11, <4>5, <4>6
      <4> QED BY <4>5, <4>6, <4>7
    <3>2. CASE ~past
      <4>1. read.reader = stop
        BY <1>4, <1>13, <3>2
      <4>2. m = n
        BY <2>3, <3>2 DEF Behind
      <4>3. read.reader.consumed \in q.consumed .. q.consumed + m
        BY <1>1, <1>6, <1>7, <1>11, <4>1, <4>2
      <4> QED BY <1>6, <1>7, <4>1, <4>2, <4>3
    <3> QED BY <3>1, <3>2
  <2>5. at + n < Total(s) /\ at + n <= Total(s) /\ e[at + n + 1] = d /\ Cut(s, read.sequence, at, at + n)
    BY <1>1, <1>7, <2>1, <2>2
  <2>6. ReadsTo(s, q, at, d, past, n, read)
    BY <1>9, <2>1, <2>3, <2>4, <2>5 DEF ReadsTo, e
  <2> QED BY <2>6 DEF s, read
<1> QED BY <1>12, <1>13

-----------------------------------------------------------------------------
(* The inductive invariant: the reader is behind the first elements of the *)
(* sequence, at least as many as it has consumed.                          *)

Results == [found : BOOLEAN, count : 0 .. MaxLength, data : Seq(Elems)]

StandsAt(s, q, at) == Reads(s, q, at) /\ q.consumed <= at

IInv ==
    /\ sequence \in Inputs
    /\ \E at \in Nat : StandsAt(sequence, reader, at)
    /\ result \in Results

\* The sequences a reader is made for are proper ones.
LEMMA InputIs ==
    ASSUME NEW s \in Inputs
    PROVE  Proper(s) /\ Total(s) \in Nat /\ Total(s) <= MaxLength /\ MaxLength \in Nat
<1>1. /\ s \in [segments : Seq(Seq(Elems)), begin : Positions, end : Positions]
      /\ \/ s.begin = NullPosition /\ s.end = NullPosition
         \/ InList(s, s.begin) /\ InList(s, s.end) /\ NotAfter(s.begin, s.end)
      /\ GetLength(s) <= MaxLength /\ MaxLength \in Nat
  BY InputsAssumption
<1>2. s.begin \in Positions /\ s.end \in Positions
  BY <1>1
<1>3. Proper(s)
  BY <1>1, <1>2 DEF Proper, Window, NullSequence, Placed
<1> QED BY <1>1, <1>3, TotalIs

\* What is left of e, from an offset on.
RestIn(e, at) == SubSeq(e, at + 1, Len(e))

RestHolds(e, at) ==
    /\ Len(e) \in Nat /\ Len(RestIn(e, at)) = Len(e) - at /\ Len(RestIn(e, at)) \in Nat
    /\ \A i \in 1 .. Len(e) - at : RestIn(e, at)[i] = e[at + i]
    /\ \A n \in 0 .. Len(e) - at : SubSeq(RestIn(e, at), 1, n) = SubSeq(e, at + 1, at + n) /\ SubSeq(e, at + 1, at + n) \in Seq(Elems)

\* What is left of the elements from a place on.
LEMMA RestElements ==
    ASSUME NEW e \in Seq(Elems), NEW at \in Nat, at <= Len(e)
    PROVE  RestHolds(e, at)
<1>1. Len(e) \in Nat
  OBVIOUS
<1>2. Spans(e, at, Len(e))
  BY <1>1 DEF Spans
<1>3. PartIs(RestIn(e, at), e, at, Len(e))
  BY <1>2, PartOf DEF RestIn
<1>4. ASSUME NEW n \in 0 .. Len(e) - at
      PROVE  SubSeq(RestIn(e, at), 1, n) = SubSeq(e, at + 1, at + n) /\ SubSeq(e, at + 1, at + n) \in Seq(Elems)
  <2>1. PICK z \in Nat, m \in Nat, to \in Nat : z = 0 /\ m = n /\ to = at + n /\ z <= m /\ m <= Len(e) - at /\ at <= to /\ to <= Len(e)
    BY <1>1
  <2>2. PartIs(SubSeq(RestIn(e, at), z + 1, m), e, at + z, at + m)
    BY <1>2, <1>3, <2>1, PartOfPart
  <2>3. z + 1 = 1 /\ at + z = at /\ at + m = to
    BY <2>1
  <2>4. PartIs(SubSeq(RestIn(e, at), 1, n), e, at, to)
    BY <2>1, <2>2, <2>3
  <2>5. Spans(e, at, to)
    BY <1>1, <2>1 DEF Spans
  <2>6. PartIs(SubSeq(e, at + 1, to), e, at, to)
    BY <2>5, PartOf
  <2>7. SubSeq(e, at + 1, to) \in Seq(Elems)
    BY <2>6 DEF PartIs
  <2> QED BY <2>1, <2>4, <2>6, <2>7, PartEqual
<1>5. Len(RestIn(e, at)) = Len(e) - at /\ Len(RestIn(e, at)) \in Nat
  BY <1>3 DEF PartIs
<1>6. \A i \in 1 .. Len(e) - at : RestIn(e, at)[i] = e[at + i]
  BY <1>3 DEF PartIs
<1> QED BY <1>1, <1>4, <1>5, <1>6 DEF RestHolds

\* The elements that follow the reader.
LEMMA FollowIs ==
    ASSUME NEW s, NEW q, NEW at, Reads(s, q, at)
    PROVE  RestHolds(Elements(s), at) /\ Total(s) = Len(Elements(s)) /\ at \in Nat /\ at <= Total(s)
<1>1. at \in Nat /\ at <= Total(s) /\ Proper(s)
  BY ReadsIs, ProperIs
<1>2. Elements(s) \in Seq(Elems) /\ Total(s) = Len(Elements(s))
  BY <1>1, TotalIs DEF Total
<1> QED BY <1>1, <1>2, RestElements

\* The offset of the reader.
OffsetIn(s, q) == FlatIndex(s, PositionIn(s, q)) - FlatIndex(s, s.begin)

\* The refinement's at is where the reader stands.
LEMMA OffsetIs ==
    ASSUME NEW s, NEW q, NEW at, Reads(s, q, at)
    PROVE  OffsetIn(s, q) = at
<1>1. Found(s, PositionIn(s, q), at)
  BY ReadsIs, PositionFound
<1> QED BY <1>1, FoundIndex DEF OffsetIn

LEMMA Offsets ==
    /\ Offset = OffsetIn(sequence, reader)
    /\ Offset' = OffsetIn(sequence', reader')
BY DEF Offset, Position, OffsetIn, PositionIn

\* A reader stands and counts within its sequence.
LEMMA StandsIn ==
    ASSUME sequence \in Inputs, NEW q, NEW at, StandsAt(sequence, q, at)
    PROVE  at \in Nat /\ at <= Total(sequence) /\ q.consumed \in 0 .. MaxLength /\ Total(sequence) \in Nat
           /\ Total(sequence) <= MaxLength
<1>1. Total(sequence) \in Nat /\ Total(sequence) <= MaxLength /\ MaxLength \in Nat
  BY InputIs
<1>2. at \in Nat /\ at <= Total(sequence) /\ q.consumed \in Nat /\ q.consumed <= at
  BY ReadsIs DEF StandsAt
<1> QED BY <1>1, <1>2

\* The invariant bounds the members.
LEMMA InvariantIsTyped ==
    ASSUME IInv
    PROVE  TypeOK
<1>1. PICK at \in Nat : StandsAt(sequence, reader, at)
  BY DEF IInv
<1>2. sequence \in Inputs /\ result \in Results
  BY DEF IInv
<1>3. Reads(sequence, reader, at)
  BY <1>1 DEF StandsAt
<1>4. Sees(sequence, reader, at) /\ reader.more = (reader.index < Len(reader.buffer))
  BY <1>3, ReadsIs DEF Reads
<1>5. reader.buffer \in Seq(Elems) /\ reader.index \in 0 .. Len(reader.buffer)
  BY <1>4 DEF Sees
<1>6. reader.consumed \in 0 .. MaxLength
  BY <1>1, <1>2, StandsIn
<1> QED BY <1>2, <1>4, <1>5, <1>6 DEF TypeOK, Results

\* After a step: where the reader is, and what it returned.
LEMMA StepInvariant ==
    ASSUME sequence \in Inputs, sequence' = sequence,
           NEW to \in Nat, StandsAt(sequence, reader', to), result' \in Results
    PROVE  IInv' /\ Offset' = to
<1>1. StandsAt(sequence', reader', to) /\ sequence' \in Inputs
  OBVIOUS
<1>2. IInv'
  BY <1>1 DEF IInv
<1>3. OffsetIn(sequence, reader') = to
  BY OffsetIs DEF StandsAt
<1>4. OffsetIn(sequence', reader') = to
  BY <1>3
<1> QED BY <1>2, <1>4, Offsets

LEMMA NothingTyped == Nothing \in Results
<1>1. MaxLength \in Nat
  BY InputsAssumption
<1>2. 0 \in 0 .. MaxLength /\ <<>> \in Seq(Elems) /\ FALSE \in BOOLEAN
  BY <1>1
<1> QED BY <1>2 DEF Nothing, Results

LEMMA ReadTyped ==
    ASSUME NEW data \in Seq(Elems)
    PROVE  Read(data) \in Results
<1>1. MaxLength \in Nat
  BY InputsAssumption
<1>2. 0 \in 0 .. MaxLength /\ TRUE \in BOOLEAN
  BY <1>1
<1> QED BY <1>2 DEF Read, Results

-----------------------------------------------------------------------------
(* The initial states.                                                     *)

\* A new reader is at the begin, and so is FlatReader.
LEMMA Initial ==
    ASSUME Init
    PROVE  IInv /\ Flat!Init
<1>1. sequence \in Inputs /\ reader = NewReader /\ result = Nothing
  BY DEF Init
<1>2. Proper(sequence) /\ Total(sequence) \in Nat /\ Total(sequence) <= MaxLength
  BY <1>1, InputIs
<1>3. Reads(sequence, reader, 0) /\ reader.consumed = 0
  BY <1>1, <1>2, BeginIs DEF Starts
<1>4. StandsAt(sequence, reader, 0)
  BY <1>3 DEF StandsAt
<1>5. IInv
  BY <1>1, <1>4, NothingTyped DEF IInv
<1>6. Offset = 0
  BY <1>3, OffsetIs, Offsets
<1>7. Elements(sequence) \in Seq(Elems) /\ Len(Elements(sequence)) <= MaxLength
  BY <1>2, TotalIs DEF Total
<1> QED BY <1>1, <1>3, <1>5, <1>6, <1>7 DEF Flat!Init, Flat!Nothing, Nothing

-----------------------------------------------------------------------------
(* The steps.                                                              *)

\* The step from one place to another, as Flat sees it.
LEMMA FlatMoved ==
    ASSUME sequence' = sequence, NEW at, Reads(sequence, reader, at), NEW n \in Nat, Offset' = at + n
    PROVE  Flat!Moved(n) /\ Offset = at /\ Flat!Rest = RestIn(Elements(sequence), at)
<1>1. Offset = at
  BY OffsetIs, Offsets
<1>2. Elements(sequence)' = Elements(sequence)
  BY DEF Elements, FlatIndex
<1> QED BY <1>1, <1>2 DEF Flat!Moved, Flat!Rest, RestIn

\* Advance keeps the invariant and is FlatReader's.
LEMMA AdvanceStep ==
    ASSUME IInv, NEW n \in 0 .. MaxLength, Advance(n)
    PROVE  IInv' /\ Flat!Advance(n)
<1>1. PICK at \in Nat : StandsAt(sequence, reader, at)
  BY DEF IInv
<1>2. sequence \in Inputs /\ Reads(sequence, reader, at) /\ reader.consumed <= at
  BY <1>1 DEF IInv, StandsAt
<1>3. /\ n <= GetLength(UnreadSequence(reader)) /\ reader' = Advanced(reader, n)
      /\ result' = Nothing /\ sequence' = sequence
  BY DEF Advance
<1>4. n \in Nat /\ reader.consumed \in Nat
  BY <1>2, ReadsIs, InputIs
<1>5. GetLength(UnreadSequence(reader)) = Total(sequence) - at
  <2>1. UnreadSequence(reader) = Subsequence(sequence, PositionIn(sequence, reader), sequence.end)
    BY DEF UnreadSequence, Position, PositionIn
  <2>2. InBuffer(sequence, reader, at)
    BY <1>2, ReadsIs
  <2> QED BY <2>1, <2>2, RestIs DEF Cut
<1>6. /\ RestHolds(Elements(sequence), at) /\ Total(sequence) = Len(Elements(sequence))
      /\ at <= Total(sequence) /\ Total(sequence) \in Nat
  BY <1>2, FollowIs, ReadsIs
<1>7. PICK to \in Nat : to = at + n /\ to <= Total(sequence)
  BY <1>3, <1>4, <1>5, <1>6
<1>8. Advances(sequence, reader, n, to, reader')
  BY <1>2, <1>3, <1>4, <1>7, AdvancedIs
<1>9. Reads(sequence, reader', to) /\ reader'.consumed \in {reader.consumed, reader.consumed + n}
  BY <1>8 DEF Advances
<1>10. StandsAt(sequence, reader', to)
  <2>1. reader'.consumed <= to
    BY <1>2, <1>4, <1>7, <1>9
  <2> QED BY <1>9, <2>1 DEF StandsAt
<1>11. IInv' /\ Offset' = to
  BY <1>2, <1>3, <1>10, NothingTyped, StepInvariant
<1>12. Flat!Moved(n) /\ Offset = at /\ Flat!Rest = RestIn(Elements(sequence), at)
  BY <1>2, <1>3, <1>4, <1>7, <1>11, FlatMoved
<1>13. n <= Len(Flat!Rest)
  <2>1. Len(RestIn(Elements(sequence), at)) = Len(Elements(sequence)) - at
    BY <1>6 DEF RestHolds
  <2>2. n <= Total(sequence) - at
    BY <1>3, <1>5
  <2> QED BY <1>6, <1>12, <2>1, <2>2
<1> QED BY <1>3, <1>9, <1>11, <1>12, <1>13 DEF Flat!Advance, Flat!Nothing, Nothing

\* Rewind keeps the invariant and is FlatReader's.
LEMMA RewindStep ==
    ASSUME IInv, NEW n \in 0 .. MaxLength, Rewind(n)
    PROVE  IInv' /\ Flat!Rewind(n)
<1>1. PICK at \in Nat : StandsAt(sequence, reader, at)
  BY DEF IInv
<1>2. sequence \in Inputs /\ Reads(sequence, reader, at) /\ reader.consumed <= at
  BY <1>1 DEF IInv, StandsAt
<1>3. n <= reader.consumed /\ reader' = Rewound(reader, n) /\ result' = Nothing /\ sequence' = sequence
  BY DEF Rewind
<1>4. n \in Nat /\ reader.consumed \in Nat
  BY <1>2, ReadsIs, InputIs
<1>5. Rewinds(sequence, reader, at, n, reader')
  BY <1>2, <1>3, <1>4, RewoundIs
<1>6. PICK to \in Nat : /\ Reads(sequence, reader', to) /\ to \in {at - n, reader.consumed - n}
                        /\ reader'.consumed \in {0, reader.consumed - n} /\ reader'.consumed <= to
  <2>1. CASE at - n \in Nat /\ Reads(sequence, reader', at - n) /\ reader'.consumed = reader.consumed - n
    <3>1. reader'.consumed <= at - n
      BY <1>2, <1>4, <2>1
    <3> QED BY <2>1, <3>1
  <2>2. CASE /\ reader.consumed - n \in Nat /\ Reads(sequence, reader', reader.consumed - n)
             /\ reader'.consumed \in {0, reader.consumed - n}
    <3>1. reader'.consumed <= reader.consumed - n
      BY <1>4, <2>2
    <3> QED BY <2>2, <3>1
  <2> QED BY <1>5, <2>1, <2>2 DEF Rewinds
<1>7. StandsAt(sequence, reader', to)
  BY <1>6 DEF StandsAt
<1>8. IInv' /\ Offset' = to
  BY <1>2, <1>3, <1>7, NothingTyped, StepInvariant
<1>9. Offset = at
  BY <1>2, OffsetIs, Offsets
<1>10. Elements(sequence)' = Elements(sequence)
  BY <1>3 DEF Elements, FlatIndex
<1> QED BY <1>3, <1>6, <1>8, <1>9, <1>10 DEF Flat!Rewind, Flat!Nothing, Nothing

\* AdvancePast keeps the invariant and is FlatReader's.
LEMMA AdvancePastStep ==
    ASSUME IInv, NEW values \in SUBSET Elems, AdvancePast(values)
    PROVE  IInv' /\ Flat!AdvancePast(values)
<1>1. PICK at \in Nat : StandsAt(sequence, reader, at)
  BY DEF IInv
<1>2. sequence \in Inputs /\ Reads(sequence, reader, at) /\ reader.consumed <= at
  BY <1>1 DEF IInv, StandsAt
<1>3. /\ reader' = AdvancedPast(reader, values) /\ sequence' = sequence
      /\ result' = [Nothing EXCEPT !.count = reader'.consumed - reader.consumed]
  BY DEF AdvancePast
<1>4. reader.consumed \in Nat
  BY <1>2, ReadsIs
<1> DEFINE e == Elements(sequence)
<1>5. PICK n : Passes(sequence, reader, at, values, n, reader')
  BY <1>2, <1>3, AdvancedPastIs
<1>6. /\ n \in Nat /\ Reads(sequence, reader', at + n) /\ reader'.consumed = reader.consumed + n
      /\ \A i \in 1 .. n : e[at + i] \in values
      /\ at + n < Total(sequence) => e[at + n + 1] \notin values
  BY <1>5 DEF Passes
<1> HIDE DEF e
<1>7. PICK to \in Nat : to = at + n
  BY <1>6
<1>8. StandsAt(sequence, reader', to)
  <2>1. Reads(sequence, reader', to)
    BY <1>6, <1>7
  <2>2. reader'.consumed <= to
    BY <1>2, <1>4, <1>6, <1>7
  <2> QED BY <2>1, <2>2 DEF StandsAt
<1>9. to <= Total(sequence) /\ Total(sequence) <= MaxLength /\ Total(sequence) \in Nat /\ MaxLength \in Nat
  BY <1>2, <1>8, StandsIn, InputIs
<1>10. result' = [Nothing EXCEPT !.count = n] /\ result' \in Results
  <2>1. reader'.consumed - reader.consumed = n
    BY <1>4, <1>6
  <2>2. n \in 0 .. MaxLength
    BY <1>6, <1>7, <1>9
  <2>3. result' = [Nothing EXCEPT !.count = n]
    BY <1>3, <2>1
  <2> QED BY <2>2, <2>3, NothingTyped DEF Results
<1>11. IInv' /\ Offset' = to
  BY <1>2, <1>3, <1>8, <1>10, StepInvariant
<1>12. Flat!Moved(n) /\ Offset = at /\ Flat!Rest = RestIn(e, at)
  BY <1>2, <1>3, <1>6, <1>7, <1>11, FlatMoved DEF e
<1>13. /\ Len(RestIn(e, at)) = Total(sequence) - at
       /\ \A i \in 1 .. Total(sequence) - at : RestIn(e, at)[i] = e[at + i]
  <2>1. RestHolds(e, at) /\ Total(sequence) = Len(e)
    BY <1>2, FollowIs DEF e
  <2> QED BY <2>1 DEF RestHolds
<1> DEFINE rest == RestIn(e, at)
           all == Total(sequence)
<1>14. n \in 0 .. Len(rest)
  BY <1>6, <1>7, <1>9, <1>13
<1>15. \A i \in 1 .. n : rest[i] \in values
  <2> SUFFICES ASSUME NEW i \in 1 .. n PROVE rest[i] \in values
    OBVIOUS
  <2>1. i \in 1 .. all - at
    BY <1>6, <1>7, <1>9
  <2> HIDE DEF all, rest
  <2>2. rest[i] = e[at + i]
    BY <1>13, <2>1 DEF rest, all
  <2> QED BY <1>6, <2>2
<1>16. n < Len(rest) => rest[n + 1] \notin values
  <2> SUFFICES ASSUME n < Len(rest) PROVE rest[n + 1] \notin values
    OBVIOUS
  <2>1. n + 1 \in 1 .. all - at /\ at + n < all /\ at + (n + 1) = at + n + 1
    BY <1>6, <1>7, <1>9, <1>13
  <2> HIDE DEF all, rest
  <2>2. PICK j \in 1 .. all - at : j = n + 1 /\ at + j = at + n + 1
    BY <2>1
  <2>3. rest[j] = e[at + n + 1]
    BY <1>13, <2>2 DEF rest, all
  <2> QED BY <1>6, <2>1, <2>2, <2>3 DEF all
<1> HIDE DEF rest, all
<1>17. Flat!Rest = rest
  BY <1>12 DEF rest
<1>18. reader'.consumed = reader.consumed + n /\ result' = [Flat!Nothing EXCEPT !.count = n]
  BY <1>6, <1>10 DEF Flat!Nothing, Nothing
<1> QED BY <1>11, <1>12, <1>14, <1>15, <1>16, <1>17, <1>18 DEF Flat!AdvancePast

\* r and res are what reading the next n elements, up to d, leaves and returns.
Delivers(s, q, at, d, past, n, r, res) ==
    /\ n \in Nat /\ at + n <= Total(s)
    /\ \A i \in 1 .. n : Elements(s)[at + i] # d
    /\ \/ at + n = Total(s) /\ r = q /\ res = Nothing
       \/ /\ at + n < Total(s) /\ Elements(s)[at + n + 1] = d
          /\ Reads(s, r, at + Behind(n, past))
          /\ r.consumed \in q.consumed .. q.consumed + Behind(n, past)
          /\ res = Read(SubSeq(Elements(s), at + 1, at + n))

\* Whatever delivers what lies before the next delimiter is FlatReader's ReadTo.
LEMMA DeliveredStep ==
    ASSUME IInv, sequence' = sequence, NEW at \in Nat, StandsAt(sequence, reader, at), NEW d,
           NEW past \in BOOLEAN, NEW n,
           Delivers(sequence, reader, at, d, past, n, reader', result')
    PROVE  IInv' /\ Flat!ReadTo(d, past)
<1> DEFINE e == Elements(sequence)
           all == Total(sequence)
           rest == RestIn(e, at)
<1>1. sequence \in Inputs /\ Reads(sequence, reader, at) /\ reader.consumed <= at
  BY DEF IInv, StandsAt
<1>2. reader.consumed \in Nat /\ all \in Nat /\ at <= all
  BY <1>1, ReadsIs
<1>3. n \in Nat /\ at + n <= all /\ \A i \in 1 .. n : e[at + i] # d
  BY DEF Delivers
<1>4. RestHolds(e, at) /\ all = Len(e)
  BY <1>1, FollowIs
<1> HIDE DEF e, all
<1>5. /\ Len(rest) = all - at
      /\ \A i \in 1 .. all - at : rest[i] = e[at + i]
      /\ n \in 0 .. all - at => SubSeq(rest, 1, n) = SubSeq(e, at + 1, at + n) /\ SubSeq(e, at + 1, at + n) \in Seq(Elems)
  BY <1>4 DEF RestHolds
<1> HIDE DEF rest
<1>6. n \in 0 .. Len(rest) /\ n \in 0 .. all - at
  BY <1>2, <1>3, <1>5
<1>7. \A i \in 1 .. n : rest[i] # d
  <2> SUFFICES ASSUME NEW i \in 1 .. n PROVE rest[i] # d
    OBVIOUS
  <2>1. i \in 1 .. all - at
    BY <1>2, <1>3
  <2> QED BY <1>3, <1>5, <2>1
<1>8. Offset = at
  BY <1>1, OffsetIs, Offsets
<1>9. Elements(sequence)' = Elements(sequence)
  BY DEF Elements, FlatIndex
<1>10. Flat!Rest = rest
  BY <1>8 DEF Flat!Rest, RestIn, rest, e
<1>11. CASE at + n = all /\ reader' = reader /\ result' = Nothing
  <2>1. IInv' /\ Offset' = at
    <3>1. StandsAt(sequence, reader', at)
      BY <1>11
    <3> QED BY <1>1, <1>11, <3>1, NothingTyped, StepInvariant
  <2>2. n = Len(rest)
    BY <1>2, <1>3, <1>5, <1>11
  <2>3. Offset' = Offset /\ reader'.consumed = reader.consumed /\ result' = Flat!Nothing
    BY <1>8, <1>11, <2>1 DEF Flat!Nothing, Nothing
  <2> QED BY <1>6, <1>7, <1>9, <1>10, <2>1, <2>2, <2>3 DEF Flat!ReadTo
<1>12. CASE /\ at + n < all /\ e[at + n + 1] = d
            /\ Reads(sequence, reader', at + Behind(n, past))
            /\ reader'.consumed \in reader.consumed .. reader.consumed + Behind(n, past)
            /\ result' = Read(SubSeq(e, at + 1, at + n))
  <2>1. PICK m \in Nat, to \in Nat : m = Behind(n, past) /\ to = at + m
    BY <1>3 DEF Behind
  <2>2. StandsAt(sequence, reader', to)
    <3>1. Reads(sequence, reader', to)
      BY <1>12, <2>1
    <3>2. reader'.consumed <= to
      BY <1>1, <1>2, <1>12, <2>1
    <3> QED BY <3>1, <3>2 DEF StandsAt
  <2>3. result' \in Results
    BY <1>5, <1>6, <1>12, ReadTyped
  <2>4. IInv' /\ Offset' = to
    BY <1>1, <2>2, <2>3, StepInvariant
  <2>5. Flat!Moved(m)
    BY <1>1, <2>1, <2>4, FlatMoved
  <2>6. n # Len(rest) /\ rest[n + 1] = d
    <3>1. n + 1 \in 1 .. all - at /\ at + (n + 1) = at + n + 1 /\ n # Len(rest)
      BY <1>2, <1>3, <1>5, <1>12
    <3>2. PICK j \in 1 .. all - at : j = n + 1 /\ at + j = at + n + 1
      BY <3>1
    <3>3. rest[j] = e[at + n + 1]
      BY <1>5, <3>2
    <3> QED BY <1>12, <3>1, <3>2, <3>3
  <2>7. result' = [found |-> TRUE, count |-> 0, data |-> SubSeq(rest, 1, n)]
    BY <1>5, <1>6, <1>12 DEF Read
  <2>8. m = IF past THEN n + 1 ELSE n
    BY <2>1 DEF Behind
  <2>9. reader'.consumed \in reader.consumed .. (reader.consumed + m)
    BY <1>12, <2>1
  <2> QED BY <1>6, <1>7, <1>10, <2>4, <2>5, <2>6, <2>7, <2>8, <2>9 DEF Flat!ReadTo
<1> QED BY <1>11, <1>12 DEF Delivers, e, all

\* What TryReadToImpl reads is delivered, however it is copied.
LEMMA ReadsDelivered ==
    ASSUME NEW s, NEW q, NEW at, NEW d, NEW past \in BOOLEAN, NEW n,
           NEW read, ReadsTo(s, q, at, d, past, n, read),
           NEW res, read.found => res = Read(Elements(read.sequence)), ~read.found => res = Nothing
    PROVE  Delivers(s, q, at, d, past, n, read.reader, res)
<1>1. n \in Nat /\ at + n <= Total(s) /\ read.found \in BOOLEAN /\ \A i \in 1 .. n : Elements(s)[at + i] # d
  BY DEF ReadsTo
<1>2. CASE ~read.found
  <2>1. at + n = Total(s) /\ read.reader = q
    BY <1>2 DEF ReadsTo
  <2> QED BY <1>1, <1>2, <2>1 DEF Delivers
<1>3. CASE read.found
  <2>1. /\ at + n < Total(s) /\ Elements(s)[at + n + 1] = d
        /\ Reads(s, read.reader, at + Behind(n, past))
        /\ read.reader.consumed \in q.consumed .. q.consumed + Behind(n, past)
        /\ Cut(s, read.sequence, at, at + n)
    BY <1>3 DEF ReadsTo
  <2>2. Elements(read.sequence) = SubSeq(Elements(s), at + 1, at + n)
    BY <2>1 DEF Cut
  <2>3. res = Read(SubSeq(Elements(s), at + 1, at + n))
    BY <1>3, <2>2
  <2> QED BY <1>1, <2>1, <2>3 DEF Delivers
<1> QED BY <1>2, <1>3

\* TryReadTo for a sequence keeps the invariant and is FlatReader's ReadTo.
LEMMA TryReadToSequenceStep ==
    ASSUME IInv, NEW d, NEW past \in BOOLEAN, TryReadToSequence(d, past)
    PROVE  IInv' /\ Flat!ReadTo(d, past)
<1>1. PICK at \in Nat : StandsAt(sequence, reader, at)
  BY DEF IInv
<1>2. Reads(sequence, reader, at)
  BY <1>1 DEF StandsAt
<1> DEFINE read == TryReadToImpl(reader, d, past, 0)
<1>3. /\ reader' = read.reader /\ sequence' = sequence
      /\ result' = IF read.found THEN Read(CopiedData(read.sequence)) ELSE Nothing
  BY DEF TryReadToSequence
<1>4. PICK n : ReadsTo(sequence, reader, at, d, past, n, read)
  <2>1. PICK z \in Nat : z = 0
    OBVIOUS
  <2>2. at <= Total(sequence) /\ Total(sequence) \in Nat
    BY <1>2, ReadsIs
  <2>3. at + z <= Total(sequence) /\ \A i \in 1 .. z : Elements(sequence)[at + i] # d
    BY <2>1, <2>2
  <2>4. \E n : ReadsTo(sequence, reader, at, d, past, n, TryReadToImpl(reader, d, past, z))
    BY <1>2, <2>3, TryReadToImplIs
  <2> QED BY <2>1, <2>4
<1> HIDE DEF read
<1>5. read.found => CopiedData(read.sequence) = Elements(read.sequence)
  BY <1>4 DEF ReadsTo, Cut, Views
<1>6. Delivers(sequence, reader, at, d, past, n, reader', result')
  BY <1>3, <1>4, <1>5, ReadsDelivered
<1> QED BY <1>1, <1>3, <1>6, DeliveredStep

\* TryReadTo for a slice (of the buffer, the segment or the copy) keeps the invariant
\* and is FlatReader's ReadTo.
LEMMA TryReadToStep ==
    ASSUME IInv, NEW d, NEW past \in BOOLEAN, TryReadTo(d, past)
    PROVE  IInv' /\ Flat!ReadTo(d, past)
<1>1. PICK at \in Nat : StandsAt(sequence, reader, at)
  BY DEF IInv
<1>2. Reads(sequence, reader, at)
  BY <1>1 DEF StandsAt
<1> DEFINE s == sequence
           u == UnreadBuffer(reader)
           i == DelimiterIn(reader, d)
           e == Elements(s)
           read == TryReadToImpl(reader, d, past, Len(u))
<1>3. /\ sequence' = sequence
      /\ i # 0 => /\ reader' = AdvanceCurrentBuffer(reader, IF past THEN i ELSE i - 1)
                  /\ result' = Read(Slice(u, 0, i - 1))
      /\ i = 0 => /\ reader' = read.reader
                  /\ result' = IF ~read.found THEN Nothing
                               ELSE IF IsSingleSegment(read.sequence) THEN Read(First(read.sequence))
                               ELSE Read(CopiedData(read.sequence))
  BY DEF TryReadTo, DelimiterIn
<1>4. i \in Nat /\ i <= Len(u) /\ Len(u) \in Nat
  BY <1>2, DelimiterInIs
<1>5. i = 0 => \A j \in 1 .. Len(u) : e[at + j] # d
  BY <1>2, DelimiterInIs
<1>6. i # 0 => e[at + i] = d /\ \A j \in 1 .. i - 1 : e[at + j] # d
  BY <1>2, DelimiterInIs
<1>7. /\ Sees(s, reader, at) /\ InBuffer(s, reader, at) /\ reader.consumed \in Nat /\ Total(s) \in Nat
  BY <1>2, ReadsIs
<1>8. at + Len(u) <= Total(s) /\ u \in Seq(Elems) /\ \A j \in 1 .. Len(u) : u[j] = e[at + j]
  BY <1>7 DEF Sees
<1> HIDE DEF u, i, e, read
<1>9. CASE i = 0
  <2>1. PICK n : ReadsTo(s, reader, at, d, past, n, read)
    <3>1. PICK skip \in Nat : skip = Len(u)
      BY <1>4
    <3>2. at + skip <= Total(s) /\ \A j \in 1 .. skip : Elements(s)[at + j] # d
      BY <1>5, <1>8, <1>9, <3>1 DEF e
    <3>3. \E n : ReadsTo(s, reader, at, d, past, n, TryReadToImpl(reader, d, past, skip))
      BY <1>2, <3>2, TryReadToImplIs
    <3> QED BY <3>1, <3>3 DEF read
  <2>2. read.found => /\ CopiedData(read.sequence) = Elements(read.sequence)
                      /\ IsSingleSegment(read.sequence) => First(read.sequence) = Elements(read.sequence)
    BY <2>1 DEF ReadsTo, Cut, Views
  <2>3. read.found => result' = Read(Elements(read.sequence))
    BY <1>3, <1>9, <2>2
  <2>4. ~read.found => result' = Nothing
    BY <1>3, <1>9
  <2>5. reader' = read.reader
    BY <1>3, <1>9
  <2>6. Delivers(s, reader, at, d, past, n, reader', result')
    BY <2>1, <2>3, <2>4, <2>5, ReadsDelivered
  <2> QED BY <1>1, <1>3, <2>6, DeliveredStep
<1>10. CASE i # 0
  <2>1. PICK n \in Nat : n = i - 1
    BY <1>4, <1>10
  <2>2. PICK m \in Nat : m = Behind(n, past)
    BY DEF Behind
  <2>3. m <= Len(u) /\ n <= Len(u) /\ n < Len(u)
    BY <1>4, <1>10, <2>1, <2>2 DEF Behind
  <2>4. reader' = AdvanceCurrentBuffer(reader, m)
    <3>1. m = IF past THEN i ELSE i - 1
      BY <1>4, <1>10, <2>1, <2>2 DEF Behind
    <3> QED BY <1>3, <1>10, <3>1
  <2>5. Goes(s, reader, at, m, reader')
    <3>1. Goes(s, reader, at, m, AdvanceCurrentBuffer(reader, m))
      BY <1>2, <2>3, AdvanceCurrentIs DEF u
    <3> QED BY <2>4, <3>1
  <2>6. Reads(s, reader', at + m) /\ reader'.consumed = reader.consumed + m
    BY <2>5 DEF Goes
  <2>7. reader'.consumed \in reader.consumed .. reader.consumed + m
    BY <1>7, <2>6
  <2>8. Slice(u, 0, i - 1) = SubSeq(e, at + 1, at + n)
    <3>1. PICK z \in Nat, to \in Nat : z = 0 /\ to = at + n /\ z <= n /\ at <= to /\ to <= Total(s) /\ z + 1 = 1 /\ at + z = at
      BY <1>4, <1>7, <1>8, <2>3
    <3>2. e \in Seq(Elems) /\ Total(s) = Len(e)
      BY <1>7, ProperIs, TotalIs DEF e, Total
    <3>3. Spans(e, at, at + Len(u)) /\ Spans(e, at, to)
      BY <1>4, <1>7, <1>8, <3>1, <3>2 DEF Spans
    <3>4. PartIs(u, e, at, at + Len(u))
      BY <1>4, <1>8 DEF PartIs
    <3>5. n <= (at + Len(u)) - at
      BY <1>4, <2>3
    <3>6. PartIs(SubSeq(u, z + 1, n), e, at + z, at + n)
      BY <3>1, <3>3, <3>4, <3>5, PartOfPart
    <3>7. PartIs(SubSeq(u, 1, n), e, at, to)
      BY <3>1, <3>6
    <3>8. PartIs(SubSeq(e, at + 1, to), e, at, to)
      BY <3>3, PartOf
    <3>9. SubSeq(u, 1, n) = SubSeq(e, at + 1, to)
      BY <3>7, <3>8, PartEqual
    <3>10. Slice(u, 0, i - 1) = SubSeq(u, 1, n)
      BY <2>1 DEF Slice
    <3> QED BY <3>1, <3>9, <3>10
  <2>9. result' = Read(SubSeq(e, at + 1, at + n))
    BY <1>3, <1>10, <2>8
  <2>10. at + n < Total(s) /\ at + n <= Total(s) /\ at + n + 1 = at + i
    BY <1>4, <1>7, <1>8, <1>10, <2>1
  <2>11. e[at + n + 1] = d /\ \A j \in 1 .. n : e[at + j] # d
    BY <1>6, <1>10, <2>1, <2>10
  <2>12. Delivers(s, reader, at, d, past, n, reader', result')
    BY <2>2, <2>6, <2>7, <2>9, <2>10, <2>11 DEF Delivers, e
  <2> QED BY <1>1, <1>3, <2>12, DeliveredStep
<1> QED BY <1>9, <1>10

\* Every step is one of the flat reader, and keeps the invariant.
LEMMA NextStep ==
    ASSUME IInv, Next
    PROVE  IInv' /\ Flat!Next
<1>1. ASSUME NEW n \in 0 .. MaxLength, Advance(n) PROVE IInv' /\ Flat!Next
  BY <1>1, AdvanceStep DEF Flat!Next
<1>2. ASSUME NEW n \in 0 .. MaxLength, Rewind(n) PROVE IInv' /\ Flat!Next
  BY <1>2, RewindStep DEF Flat!Next
<1>3. ASSUME NEW values \in SUBSET Elems, AdvancePast(values) PROVE IInv' /\ Flat!Next
  BY <1>3, AdvancePastStep DEF Flat!Next
<1>4. ASSUME NEW d \in Elems, NEW past \in BOOLEAN, TryReadToSequence(d, past) PROVE IInv' /\ Flat!Next
  BY <1>4, TryReadToSequenceStep DEF Flat!Next
<1>5. ASSUME NEW d \in Elems, NEW past \in BOOLEAN, TryReadTo(d, past) PROVE IInv' /\ Flat!Next
  BY <1>5, TryReadToStep DEF Flat!Next
<1> QED BY <1>1, <1>2, <1>3, <1>4, <1>5 DEF Next

LEMMA Stutters ==
    ASSUME IInv, UNCHANGED vars
    PROVE  IInv' /\ UNCHANGED Flat!vars
<1>1. sequence' = sequence /\ reader' = reader /\ result' = result
  BY DEF vars
<1>2. IInv'
  BY <1>1 DEF IInv
<1>3. Offset' = Offset
  BY <1>1, Offsets
<1>4. Elements(sequence)' = Elements(sequence)
  BY <1>1 DEF Elements, FlatIndex
<1> QED BY <1>1, <1>2, <1>3, <1>4 DEF Flat!vars

\* The invariant holds always.
THEOREM Inductive == Spec => []IInv
<1>1. Init => IInv
  BY Initial
<1>2. IInv /\ [Next]_vars => IInv'
  BY NextStep, Stutters
<1> QED BY <1>1, <1>2, PTL DEF Spec

\* The index stays in the buffer, the flag tells what is left of it, the
\* counts are bounded (SequenceReader.h: MoveToNextBuffer, AdvanceCurrentBuffer).
THEOREM TypeCorrect == Spec => []TypeOK
<1>1. IInv => TypeOK
  BY InvariantIsTyped
<1> QED BY <1>1, Inductive, PTL

\* A reader of any sequence, in whatever segments, behaves as a reader of
\* its elements side by side (SequenceReader.h, all operations).
THEOREM ImplementsFlat == Spec => ImplementsFlatReader
<1>1. Init => Flat!Init
  BY Initial
<1>2. IInv /\ [Next]_vars => [Flat!Next]_(Flat!vars)
  BY NextStep, Stutters
<1> QED BY <1>1, <1>2, Inductive, PTL DEF Spec, ImplementsFlatReader, Flat!Spec

-----------------------------------------------------------------------------
(* The views.                                                              *)

\* What ViewsAreFlat says of a sequence with the elements of flat between two offsets.
Agreed(flat, s, from, to) ==
    /\ Elements(s) = SubSeq(flat, from + 1, to)
    /\ CopiedData(s) = Elements(s)
    /\ GetLength(s) = Len(Elements(s))
    /\ IteratedBuffers(s) = OneBehind(s)

\* A slice agrees with the flat elements.
LEMMA CutAgrees ==
    ASSUME NEW s, NEW t, NEW from, NEW to, Cut(s, t, from, to)
    PROVE  Agreed(Elements(s), t, from, to)
BY DEF Cut, Views, Agreed

\* Positions that are sought, by slices and by offsets.
LEMMA SlicesAgree ==
    ASSUME NEW s, Window(s), NEW p, NEW at, Found(s, p, at), NEW to \in Nat, at <= to, to <= Total(s)
    PROVE  /\ Agreed(Elements(s), Subsequence(s, p, Seek(s, p, to - at)), at, to)
           /\ Agreed(Elements(s), OffsetSubsequence(s, at, to), at, to)
<1>1. at \in Nat
  BY DEF Found
<1>2. PICK n \in Nat, z \in Nat : n = to - at /\ to = at + n /\ z = 0 /\ to = z + to /\ at = z + at
  BY <1>1
<1>3. Found(s, s.begin, z) /\ Total(s) \in Nat
  BY <1>2, EndsFound, TotalIs DEF Proper
<1>4. at <= Total(s)
  BY <1>1, <1>3
<1>5. Found(s, Seek(s, p, n), to) /\ Settled(s, Seek(s, p, n))
  BY <1>2, SeekFound
<1>6. Cut(s, Subsequence(s, p, Seek(s, p, n)), at, to)
  BY <1>5, CutIs
<1>7. Found(s, Seek(s, s.begin, at), at)
  BY <1>1, <1>2, <1>3, <1>4, SeekFound
<1>8. Found(s, Seek(s, s.begin, to), to) /\ Settled(s, Seek(s, s.begin, to))
  BY <1>2, <1>3, SeekFound
<1>9. Cut(s, OffsetSubsequence(s, at, to), at, to)
  BY <1>7, <1>8, CutIs DEF OffsetSubsequence
<1> QED BY <1>2, <1>6, <1>9, CutAgrees

\* Peek and UnreadBuffer show what follows.
LEMMA BufferViews ==
    ASSUME NEW s, NEW q, NEW at, Reads(s, q, at)
    PROVE  /\ Peek(q) = IF at < Total(s) THEN <<Elements(s)[at + 1]>> ELSE <<>>
           /\ IsPrefix(UnreadBuffer(q), RestIn(Elements(s), at))
<1> DEFINE u == UnreadBuffer(q)
           e == Elements(s)
<1>1. Sees(s, q, at) /\ (q.more <=> at < Total(s)) /\ (q.more <=> 0 < Len(u))
  BY ReadsIs
<1>2. /\ at \in Nat /\ Total(s) \in Nat /\ q.index \in Nat /\ q.buffer \in Seq(Elems) /\ Len(q.buffer) \in Nat
      /\ q.index <= Len(q.buffer) /\ u \in Seq(Elems) /\ Len(u) \in Nat /\ Len(u) = Len(q.buffer) - q.index
      /\ at + Len(u) <= Total(s) /\ \A i \in 1 .. Len(u) : u[i] = e[at + i]
  BY <1>1 DEF Sees
<1>3. e \in Seq(Elems) /\ Total(s) = Len(e)
  BY <1>1, ReadsIs, ProperIs, TotalIs DEF Total
<1>4. PartIs(u, q.buffer, q.index, Len(q.buffer))
  <2>1. Spans(q.buffer, q.index, Len(q.buffer))
    BY <1>2 DEF Spans
  <2> QED BY <2>1, PartOf DEF UnreadBuffer, Slice
<1>5. \A i \in 1 .. Len(q.buffer) - q.index : u[i] = q.buffer[q.index + i]
  BY <1>4 DEF PartIs
<1> HIDE DEF u, e
<1>6. IsPrefix(u, RestIn(e, at))
  <2>1. at <= Len(e) /\ RestHolds(e, at)
    <3>1. at <= Len(e)
      BY <1>2, <1>3
    <3> QED BY <1>2, <1>3, <3>1, RestElements
  <2>2. Len(RestIn(e, at)) = Len(e) - at
    BY <2>1 DEF RestHolds
  <2>3. Len(u) \in 0 .. Len(e) - at
    BY <1>2, <1>3, <2>1
  <2>4. SubSeq(RestIn(e, at), 1, Len(u)) = SubSeq(e, at + 1, at + Len(u))
    BY <2>1, <2>3 DEF RestHolds
  <2>5. PICK n \in Nat, to \in Nat : n = Len(u) /\ to = at + n /\ at <= to /\ to <= Len(e) /\ to - at = n
    <3>1. at + Len(u) \in Nat /\ at <= at + Len(u) /\ at + Len(u) <= Len(e) /\ (at + Len(u)) - at = Len(u)
      BY <1>2, <1>3
    <3> QED BY <1>2, <3>1
  <2>6. Spans(e, at, to)
    BY <1>2, <1>3, <2>5 DEF Spans
  <2>7. PartIs(u, e, at, to)
    BY <1>2, <2>5 DEF PartIs
  <2>8. PartIs(SubSeq(e, at + 1, to), e, at, to)
    BY <2>6, PartOf
  <2>9. u = SubSeq(e, at + 1, to)
    BY <2>7, <2>8, PartEqual
  <2>10. SubSeq(u, 1, Len(u)) = u
    BY <1>2, SubSeqFull
  <2>11. SubSeq(u, 1, Len(u)) = SubSeq(RestIn(e, at), 1, Len(u))
    BY <2>4, <2>5, <2>9, <2>10
  <2>12. Len(u) <= Len(RestIn(e, at))
    BY <1>2, <1>3, <2>2
  <2> QED BY <2>11, <2>12 DEF IsPrefix
<1>7. CASE q.more
  <2>1. 1 \in 1 .. Len(u) /\ 1 \in 1 .. Len(q.buffer) - q.index
    BY <1>1, <1>2, <1>7
  <2>2. q.buffer[q.index + 1] = e[at + 1]
    BY <1>2, <1>5, <2>1
  <2>3. Peek(q) = <<e[at + 1]>>
    BY <1>7, <2>2 DEF Peek
  <2>4. at < Total(s)
    BY <1>1, <1>7
  <2>5. Peek(q) = IF at < Total(s) THEN <<e[at + 1]>> ELSE <<>>
    BY <2>3, <2>4
  <2> QED BY <1>6, <2>5 DEF u, e
<1>8. CASE ~q.more
  <2>1. Peek(q) = <<>>
    BY <1>8 DEF Peek
  <2>2. ~(at < Total(s))
    BY <1>1, <1>8
  <2>3. Peek(q) = IF at < Total(s) THEN <<e[at + 1]>> ELSE <<>>
    BY <2>1, <2>2
  <2> QED BY <1>6, <2>3 DEF u, e
<1> QED BY <1>7, <1>8

\* All views agree wherever the reader stands.
LEMMA ViewsHold ==
    ASSUME IInv
    PROVE  ViewsAreFlat
<1>1. PICK at \in Nat : StandsAt(sequence, reader, at)
  BY DEF IInv
<1>2. sequence \in Inputs /\ Reads(sequence, reader, at) /\ reader.consumed <= at
  BY <1>1 DEF IInv, StandsAt
<1>3. Offset = at
  BY <1>2, OffsetIs, Offsets
<1>4. InBuffer(sequence, reader, at) /\ Proper(sequence) /\ Total(sequence) = Len(Elements(sequence))
  BY <1>2, ReadsIs, ProperIs DEF Total
<1>5. Position(reader) = PositionIn(sequence, reader)
  BY DEF Position, PositionIn
<1>6. Found(sequence, Position(reader), at) /\ Total(sequence) \in Nat
  BY <1>4, <1>5, PositionFound, TotalIs
<1>7. ASSUME sequence.begin # NullPosition, NEW to \in Offset .. Len(Elements(sequence))
      PROVE  /\ Agreed(Elements(sequence), Subsequence(sequence, Position(reader),
                           Seek(sequence, Position(reader), to - Offset)), Offset, to)
             /\ Agreed(Elements(sequence), OffsetSubsequence(sequence, Offset, to), Offset, to)
  <2>1. Window(sequence)
    BY <1>4, <1>7 DEF Proper, NullSequence
  <2>2. to \in Nat /\ at <= to /\ to <= Total(sequence)
    BY <1>3, <1>4, <1>6
  <2> QED BY <1>3, <1>6, <2>1, <2>2, SlicesAgree
<1>8. Agreed(Elements(sequence), UnreadSequence(reader), Offset, Len(Elements(sequence)))
  <2>1. Cut(sequence, UnreadSequence(reader), at, Total(sequence))
    BY <1>4, <1>5, RestIs DEF UnreadSequence
  <2> QED BY <1>3, <1>4, <2>1, CutAgrees
<1>9. /\ Peek(reader) = IF Offset < Len(Elements(sequence)) THEN <<Elements(sequence)[Offset + 1]>> ELSE <<>>
      /\ IsPrefix(UnreadBuffer(reader), SubSeq(Elements(sequence), Offset + 1, Len(Elements(sequence))))
  <2>1. /\ Peek(reader) = IF at < Total(sequence) THEN <<Elements(sequence)[at + 1]>> ELSE <<>>
        /\ IsPrefix(UnreadBuffer(reader), RestIn(Elements(sequence), at))
    BY <1>2, BufferViews
  <2> QED BY <1>3, <1>4, <2>1 DEF RestIn
<1>10. reader.consumed <= Offset
  BY <1>2, <1>3
<1> QED BY <1>7, <1>8, <1>9, <1>10, Zenon DEF ViewsAreFlat, Agreed

\* Every way to look at the rest of the sequence shows the same elements
\* (ReadOnlySequence.h: Seek, the slices, GetLength, CopyDataTo, the iterator;
\* SequenceReader.h: Peek, UnreadBuffer, UnreadSequence).
THEOREM ViewsAgree == Spec => []ViewsAreFlat
<1>1. IInv => ViewsAreFlat
  BY ViewsHold
<1> QED BY <1>1, Inductive, PTL
=============================================================================
