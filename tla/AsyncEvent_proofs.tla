-------------------------- MODULE AsyncEvent_proofs --------------------------
(***************************************************************************)
(* Theorems about AsyncEvent for every set of coroutines and of threads    *)
(* that set the event, and for every number of awaits.                     *)
(***************************************************************************)
EXTENDS AsyncEvent, SequenceTheorems, TLAPS

-----------------------------------------------------------------------------
(* Lists of coroutines.                                                    *)

NoRepeat(q) == \A i, k \in DOMAIN q : q[i] = q[k] => i = k
Apart(q, r) == ToSet(q) \cap ToSet(r) = {}

\* The elements of a list are coroutines, and it has a first one unless it is empty.
LEMMA ListElements ==
    ASSUME NEW q \in Seq(Coroutines)
    PROVE  /\ Len(q) \in Nat /\ DOMAIN q = 1 .. Len(q)
           /\ \A i \in 1 .. Len(q) : q[i] \in Coroutines
           /\ q # <<>> <=> Len(q) > 0
           /\ q # <<>> => Head(q) = q[1] /\ Head(q) \in Coroutines
           /\ First(q) = Null <=> q = <<>>
<1>1. Len(q) \in Nat /\ DOMAIN q = 1 .. Len(q) /\ \A i \in 1 .. Len(q) : q[i] \in Coroutines
  BY LenProperties, ElementOfSeq
<1>2. q # <<>> <=> Len(q) > 0
  BY <1>1, EmptySeq
<1>3. q # <<>> => Head(q) = q[1] /\ Head(q) \in Coroutines
  BY <1>1, <1>2
<1> QED BY <1>1, <1>2, <1>3, NamesAssumption DEF First

\* What AsyncEventOperation pushed in front of a list does to its elements.
LEMMA PushedList ==
    ASSUME NEW q \in Seq(Coroutines), NEW c \in Coroutines
    PROVE  /\ <<c>> \o q \in Seq(Coroutines)
           /\ First(<<c>> \o q) = c
           /\ ToSet(<<c>> \o q) = {c} \cup ToSet(q)
           /\ NoRepeat(q) /\ c \notin ToSet(q) => NoRepeat(<<c>> \o q)
<1> DEFINE r == <<c>> \o q
<1>1. Len(q) \in Nat /\ DOMAIN q = 1 .. Len(q)
  BY ListElements
<1>2. /\ r \in Seq(Coroutines) /\ Len(r) = Len(q) + 1 /\ r[1] = c
      /\ \A i \in 1 .. Len(q) : r[i + 1] = q[i]
  <2>1. <<c>> \in Seq(Coroutines) /\ Len(<<c>>) = 1 /\ <<c>>[1] = c
    OBVIOUS
  <2>2. /\ r \in Seq(Coroutines) /\ Len(r) = 1 + Len(q)
        /\ \A i \in 1 .. 1 + Len(q) : r[i] = IF i <= 1 THEN <<c>>[i] ELSE q[i - 1]
    BY <2>1, ConcatProperties
  <2> QED BY <1>1, <2>1, <2>2
<1>3. DOMAIN r = 1 .. Len(q) + 1
  BY <1>2, LenProperties
<1> HIDE DEF r
<1>4. First(r) = c
  BY <1>1, <1>2, EmptySeq DEF First
<1>5. \A i \in DOMAIN r : i = 1 \/ (i - 1 \in DOMAIN q /\ r[i] = q[i - 1])
  BY <1>1, <1>2, <1>3
<1>6. \A i \in DOMAIN q : i + 1 \in DOMAIN r /\ r[i + 1] = q[i]
  BY <1>1, <1>2, <1>3
<1>7. 1 \in DOMAIN r /\ \A i \in DOMAIN r : i \in Int
  BY <1>1, <1>3
<1>8. ToSet(r) = {c} \cup ToSet(q)
  BY <1>2, <1>5, <1>6, <1>7 DEF ToSet
<1>9. ASSUME NoRepeat(q), c \notin ToSet(q) PROVE NoRepeat(r)
  <2> SUFFICES ASSUME NEW i \in DOMAIN r, NEW k \in DOMAIN r, r[i] = r[k] PROVE i = k
    BY DEF NoRepeat
  <2>1. \A n \in DOMAIN q : q[n] # c
    BY <1>9 DEF ToSet
  <2>2. i - 1 = k - 1 => i = k
    BY <1>7
  <2> QED BY <1>2, <1>5, <1>9, <2>1, <2>2 DEF NoRepeat
<1> QED BY <1>2, <1>4, <1>8, <1>9 DEF r

\* What is left of a list when its first operation is taken off.
LEMMA TailList ==
    ASSUME NEW q \in Seq(Coroutines), q # <<>>
    PROVE  /\ Tail(q) \in Seq(Coroutines)
           /\ Len(Tail(q)) = Len(q) - 1
           /\ \A i \in 1 .. Len(q) - 1 : Tail(q)[i] = q[i + 1]
           /\ First(Tail(q)) = IF Len(q) > 1 THEN q[2] ELSE Null
           /\ ToSet(q) = {Head(q)} \cup ToSet(Tail(q))
           /\ NoRepeat(q) => NoRepeat(Tail(q)) /\ Head(q) \notin ToSet(Tail(q))
<1> DEFINE r == Tail(q)
<1>1. Len(q) \in Nat /\ DOMAIN q = 1 .. Len(q) /\ Len(q) > 0 /\ Head(q) = q[1]
  BY ListElements
<1>2. r \in Seq(Coroutines) /\ Len(r) = Len(q) - 1 /\ \A i \in 1 .. Len(q) - 1 : r[i] = q[i + 1]
  BY HeadTailProperties
<1>3. DOMAIN r = 1 .. Len(q) - 1
  BY <1>2, LenProperties
<1> HIDE DEF r
<1>4. First(r) = IF Len(q) > 1 THEN q[2] ELSE Null
  <2>1. r # <<>> <=> Len(q) > 1
    BY <1>1, <1>2, ListElements
  <2>2. Len(q) > 1 => Head(r) = r[1] /\ r[1] = q[2]
    BY <1>1, <1>2, <2>1, ListElements
  <2> QED BY <2>1, <2>2 DEF First
<1>5. \A i \in DOMAIN q : i = 1 \/ (i - 1 \in DOMAIN r /\ q[i] = r[i - 1])
  BY <1>1, <1>2, <1>3
<1>6. \A i \in DOMAIN r : i + 1 \in DOMAIN q /\ q[i + 1] = r[i] /\ i + 1 # 1
  BY <1>1, <1>2, <1>3
<1>7. 1 \in DOMAIN q /\ (\A i \in DOMAIN q : i \in Int) /\ \A i \in DOMAIN r : i \in Int
  BY <1>1, <1>3
<1>8. ToSet(q) = {Head(q)} \cup ToSet(r)
  BY <1>1, <1>5, <1>6, <1>7 DEF ToSet
<1>9. ASSUME NoRepeat(q) PROVE NoRepeat(r) /\ Head(q) \notin ToSet(r)
  <2>1. \A i, k \in DOMAIN r : i + 1 = k + 1 => i = k
    BY <1>7
  <2>2. NoRepeat(r)
    BY <1>6, <1>9, <2>1 DEF NoRepeat
  <2>3. \A i \in DOMAIN r : r[i] # Head(q)
    BY <1>1, <1>6, <1>7, <1>9 DEF NoRepeat
  <2> QED BY <2>2, <2>3 DEF ToSet
<1> QED BY <1>2, <1>4, <1>8, <1>9 DEF r

\* The empty list.
LEMMA EmptyList == ToSet(<<>>) = {} /\ NoRepeat(<<>>) /\ Linked(<<>>) /\ <<>> \in Seq(Coroutines)
  BY EmptySeq DEF ToSet, NoRepeat, Linked

\* A list whose operations keep their m_Next stays linked.
LEMMA LinkedFrame ==
    ASSUME NEW q \in Seq(Coroutines), Linked(q), \A c \in ToSet(q) : next'[c] = next[c]
    PROVE  Linked(q)'
  BY DEF Linked, ToSet

\* A linked list stays linked without its first operation.
LEMMA LinkedTail ==
    ASSUME NEW q \in Seq(Coroutines), q # <<>>, Linked(q)
    PROVE  Linked(Tail(q)) /\ next[Head(q)] = First(Tail(q))
<1>1. /\ Len(q) \in Nat /\ DOMAIN q = 1 .. Len(q) /\ Len(q) > 0 /\ Head(q) = q[1]
      /\ Tail(q) \in Seq(Coroutines) /\ Len(Tail(q)) = Len(q) - 1
      /\ \A i \in 1 .. Len(q) - 1 : Tail(q)[i] = q[i + 1]
      /\ First(Tail(q)) = IF Len(q) > 1 THEN q[2] ELSE Null
  BY ListElements, TailList
<1>2. DOMAIN Tail(q) = 1 .. Len(q) - 1
  BY <1>1, ListElements
<1>3. \A i \in 1 .. Len(q) : next[q[i]] = IF i < Len(q) THEN q[i + 1] ELSE Null
  BY <1>1 DEF Linked
<1>4. next[Head(q)] = First(Tail(q))
  BY <1>1, <1>3
<1>5. \A i \in 1 .. Len(q) - 1 : next[Tail(q)[i]] = IF i < Len(q) - 1 THEN Tail(q)[i + 1] ELSE Null
  BY <1>1, <1>3
<1> QED BY <1>1, <1>2, <1>4, <1>5 DEF Linked

\* An operation whose m_Next is the head of a linked list is linked in front of it.
LEMMA LinkedPush ==
    ASSUME NEW q \in Seq(Coroutines), NEW c \in Coroutines, Linked(q), next[c] = First(q)
    PROVE  Linked(<<c>> \o q)
<1> DEFINE r == <<c>> \o q
<1>1. /\ Len(q) \in Nat /\ DOMAIN q = 1 .. Len(q) /\ (q = <<>> <=> Len(q) = 0)
      /\ q # <<>> => Head(q) = q[1]
  BY ListElements
<1>2. /\ r \in Seq(Coroutines) /\ Len(r) = Len(q) + 1 /\ r[1] = c
      /\ \A i \in 1 .. Len(q) : r[i + 1] = q[i]
  <2>1. <<c>> \in Seq(Coroutines) /\ Len(<<c>>) = 1 /\ <<c>>[1] = c
    OBVIOUS
  <2>2. /\ r \in Seq(Coroutines) /\ Len(r) = 1 + Len(q)
        /\ \A i \in 1 .. 1 + Len(q) : r[i] = IF i <= 1 THEN <<c>>[i] ELSE q[i - 1]
    BY <2>1, ConcatProperties
  <2> QED BY <1>1, <2>1, <2>2
<1>3. DOMAIN r = 1 .. Len(q) + 1
  BY <1>2, LenProperties
<1> HIDE DEF r
<1>4. \A i \in 1 .. Len(q) : next[q[i]] = IF i < Len(q) THEN q[i + 1] ELSE Null
  BY <1>1 DEF Linked
<1>5. next[r[1]] = IF 1 < Len(r) THEN r[2] ELSE Null
  <2>1. CASE q = <<>>
    BY <1>1, <1>2, <2>1 DEF First
  <2>2. CASE q # <<>>
    BY <1>1, <1>2, <2>2 DEF First
  <2> QED BY <2>1, <2>2
<1>6. \A i \in 1 .. Len(q) : next[r[i + 1]] = IF i + 1 < Len(r) THEN r[i + 2] ELSE Null
  BY <1>1, <1>2, <1>4
<1>7. \A i \in DOMAIN r : next[r[i]] = IF i < Len(r) THEN r[i + 1] ELSE Null
  <2> SUFFICES ASSUME NEW i \in DOMAIN r, i # 1
               PROVE  next[r[i]] = IF i < Len(r) THEN r[i + 1] ELSE Null
    BY <1>5
  <2>1. i - 1 \in 1 .. Len(q) /\ i - 1 + 1 = i /\ i - 1 + 2 = i + 1
    BY <1>1, <1>3
  <2> QED BY <1>6, <2>1
<1>8. Linked(r)
  BY <1>7 DEF Linked
<1> QED BY <1>8 DEF r

-----------------------------------------------------------------------------
(* The inductive invariant.                                                *)

\* A coroutine is in the event's list, or in that of a Set.
Held(c) == c \in ToSet(listed) \/ \E s \in Setters : c \in ToSet(taken[s])

\* SuspendedOnce without its cardinalities: the lists repeat no coroutine, share
\* none, and hold exactly the suspended ones.
Once ==
    /\ NoRepeat(listed) /\ \A s \in Setters : NoRepeat(taken[s])
    /\ \A s \in Setters : Apart(listed, taken[s])
    /\ \A s, r \in Setters : s # r => Apart(taken[s], taken[r])
    /\ \A c \in Coroutines : pc[c] = "suspended" <=> Held(c)

\* The locals: await_suspend has stored oldState in m_Next before it exchanges,
\* and Set has read the next operation before it resumes one.
LocalsOK ==
    /\ \A c \in Coroutines : pc[c] = "push" => next[c] = old[c]
    /\ \A s \in Setters : at[s] = "resume" => following[s] = First(Tail(taken[s]))

IInv == TypeOK /\ ListsMatch /\ Once /\ LocalsOK

\* The event starts with empty lists.
LEMMA Initial == Init => IInv
<1> SUFFICES ASSUME Init PROVE IInv
  OBVIOUS
<1>1. TypeOK
  BY EmptyList, MaxAwaitsAssumption DEF Init, TypeOK, Pointers
<1>2. ListsMatch
  BY EmptyList, NamesAssumption DEF Init, ListsMatch, First
<1>3. Once
  BY EmptyList DEF Init, Once, Apart, Held
<1>4. LocalsOK
  BY DEF Init, LocalsOK
<1> QED BY <1>1, <1>2, <1>3, <1>4 DEF IInv

\* What the steps of an await have in common before the coroutine is in the list:
\* they are local to it, and it does not become suspended.
LEMMA LocalAwait ==
    ASSUME TypeOK, NEW c \in Coroutines, AwaitReady(c) \/ Load(c) \/ PushFails(c)
    PROVE  /\ UNCHANGED <<state, host, setterVars, listed, taken>>
           /\ pc[c] # "suspended" /\ pc'[c] # "suspended"
           /\ pc'[c] = "push" => next'[c] = old'[c]
           /\ \A d \in Coroutines \ {c} : pc'[d] = pc[d] /\ next'[d] = next[d] /\ old'[d] = old[d]
           /\ TypeOK'
<1> USE DEF TypeOK, setterVars
<1>1. ASSUME NEW seen \in Pointers \cup {SetState}, Seen(c, seen),
             pc[c] # "suspended", UNCHANGED <<state, host, awaits, setterVars, listed, taken>>
      PROVE  /\ pc'[c] # "suspended"
             /\ pc'[c] = "push" => next'[c] = old'[c]
             /\ \A d \in Coroutines \ {c} : pc'[d] = pc[d] /\ next'[d] = next[d] /\ old'[d] = old[d]
             /\ TypeOK'
  <2>1. CASE seen = SetState
    BY <1>1, <2>1 DEF Seen, Continue
  <2>2. CASE seen # SetState
    BY ZenonT(30), <1>1, <2>2 DEF Seen
  <2> QED BY <2>1, <2>2
<1>2. CASE AwaitReady(c)
  <2>1. awaits[c] + 1 \in 0 .. MaxAwaits
    BY <1>2, MaxAwaitsAssumption DEF AwaitReady
  <2>2. /\ awaits' \in [Coroutines -> 0 .. MaxAwaits] /\ pc'[c] \in {"running", "load", "done"}
        /\ pc' \in [Coroutines -> {"running", "load", "push", "suspended", "done"}]
    BY <1>2, <2>1 DEF AwaitReady
  <2> QED BY <1>2, <2>2 DEF AwaitReady
<1>3. CASE Load(c)
  BY <1>1, <1>3 DEF Load
<1>4. CASE PushFails(c)
  BY <1>1, <1>4 DEF PushFails
<1> QED BY <1>2, <1>3, <1>4

\* What the types of the parts are, for the steps below.
LEMMA Parts ==
    ASSUME TypeOK
    PROVE  /\ listed \in Seq(Coroutines)
           /\ \A s \in Setters : taken[s] \in Seq(Coroutines)
           /\ \A c \in Coroutines : c # Null /\ c # SetState
  BY NamesAssumption DEF TypeOK

\* The steps of an await up to a failed exchange: m_Next changes only in an
\* operation that is in no list.
LEMMA LocalAwaitKeeps ==
    ASSUME IInv, NEW c \in Coroutines, AwaitReady(c) \/ Load(c) \/ PushFails(c)
    PROVE  IInv'
<1>0. TypeOK /\ ListsMatch /\ Once /\ LocalsOK
  BY DEF IInv
<1>1. /\ UNCHANGED <<state, at, current, following, listed, taken>>
      /\ pc[c] # "suspended" /\ pc'[c] # "suspended"
      /\ pc'[c] = "push" => next'[c] = old'[c]
      /\ \A d \in Coroutines \ {c} : pc'[d] = pc[d] /\ next'[d] = next[d] /\ old'[d] = old[d]
      /\ TypeOK'
  BY <1>0, LocalAwait DEF setterVars
<1>2. \A d : Held(d)' <=> Held(d)
  BY <1>1 DEF Held
<1>3. Once'
  BY <1>0, <1>1, <1>2 DEF Once
<1>4. c \notin ToSet(listed) /\ \A s \in Setters : c \notin ToSet(taken[s])
  BY <1>0, <1>1 DEF Once, Held
<1>5. /\ \A d \in ToSet(listed) : next'[d] = next[d]
      /\ \A s \in Setters : \A d \in ToSet(taken[s]) : next'[d] = next[d]
  <2>1. ToSet(listed) \subseteq Coroutines /\ \A s \in Setters : ToSet(taken[s]) \subseteq Coroutines
    BY <1>0, Parts, ListElements DEF ToSet
  <2> QED BY <1>1, <1>4, <2>1
<1>6. ListsMatch'
  <2>1. Linked(listed)' /\ \A s \in Setters : Linked(taken[s])'
    BY <1>0, <1>1, <1>5 DEF Linked, ToSet, ListsMatch
  <2> QED BY <1>0, <1>1, <2>1 DEF ListsMatch
<1>7. LocalsOK'
  BY <1>0, <1>1 DEF LocalsOK
<1> QED BY <1>1, <1>3, <1>6, <1>7 DEF IInv

\* compare_exchange succeeds: the head is what oldState was, whatever has happened
\* to the list in between, and m_Next names it.
LEMMA PushKeeps ==
    ASSUME IInv, NEW c \in Coroutines, PushSucceeds(c)
    PROVE  IInv'
<1>0. TypeOK /\ ListsMatch /\ Once /\ LocalsOK
  BY DEF IInv
<1>1. /\ pc[c] = "push" /\ state = old[c] /\ state' = c /\ listed' = <<c>> \o listed
      /\ pc' = [pc EXCEPT ![c] = "suspended"]
      /\ UNCHANGED <<next, old, awaits, at, current, following, taken>>
  BY DEF PushSucceeds, setterVars
<1>2. /\ listed' \in Seq(Coroutines) /\ First(listed') = c
      /\ ToSet(listed') = {c} \cup ToSet(listed)
      /\ c \notin ToSet(listed) /\ \A s \in Setters : c \notin ToSet(taken[s])
  BY <1>0, <1>1, Parts, PushedList DEF Once, Held
<1>3. TypeOK'
  <2>1. host' \in [Coroutines -> Coroutines \cup Setters \cup {Null}]
    BY <1>0 DEF TypeOK, PushSucceeds
  <2> QED BY <1>0, <1>1, <1>2, <2>1 DEF TypeOK, Pointers
<1>4. ListsMatch'
  <2>1. state # SetState /\ First(listed) = next[c]
    <3>1. state \in Pointers /\ state # SetState
      BY <1>0, <1>1, NamesAssumption DEF TypeOK, Pointers
    <3> QED BY <1>0, <1>1, <3>1 DEF ListsMatch, LocalsOK
  <2>2. Linked(<<c>> \o listed)
    BY <1>0, <2>1, Parts, LinkedPush DEF ListsMatch
  <2>3. Linked(listed)' /\ \A s \in Setters : Linked(taken[s])'
    BY <1>0, <1>1, <2>2 DEF Linked, ListsMatch
  <2> QED BY <1>0, <1>1, <1>2, <2>3, Parts DEF ListsMatch, First
<1>5. Once'
  <2>1. NoRepeat(listed')
    BY <1>0, <1>1, <1>2, Parts, PushedList DEF Once
  <2>2. \A d : Held(d)' <=> Held(d) \/ d = c
    BY <1>1, <1>2 DEF Held
  <2>3. \A d \in Coroutines : pc'[d] = "suspended" <=> pc[d] = "suspended" \/ d = c
    BY <1>0, <1>1 DEF TypeOK
  <2>4. \A s \in Setters : Apart(listed, taken[s])'
    BY <1>0, <1>1, <1>2 DEF Once, Apart
  <2> QED BY <1>0, <1>1, <2>1, <2>2, <2>3, <2>4 DEF Once, Apart, NoRepeat
<1>6. LocalsOK'
  BY <1>0, <1>1 DEF LocalsOK, TypeOK
<1> QED BY <1>3, <1>4, <1>5, <1>6 DEF IInv

\* exchange: the whole list changes hands, and the event's is empty.
LEMMA ExchangeKeeps ==
    ASSUME IInv, NEW s \in Setters, Exchange(s)
    PROVE  IInv'
<1>0. TypeOK /\ ListsMatch /\ Once /\ LocalsOK
  BY DEF IInv
<1>1. /\ at[s] = "idle" /\ state' = SetState /\ listed' = <<>>
      /\ taken' = [taken EXCEPT ![s] = listed]
      /\ current' = [current EXCEPT ![s] = IF state = SetState THEN Null ELSE state]
      /\ at' = [at EXCEPT ![s] = IF state \in {SetState, Null} THEN "idle" ELSE "next"]
      /\ UNCHANGED <<next, old, pc, host, awaits, following>>
  BY DEF Exchange, coroutineVars
<1>2. /\ taken'[s] = listed /\ \A r \in Setters \ {s} : taken'[r] = taken[r]
      /\ taken[s] = <<>>
  BY <1>0, <1>1 DEF TypeOK, ListsMatch
<1>3. TypeOK'
  BY <1>0, <1>1, EmptyList DEF TypeOK, Pointers
<1>4. ListsMatch'
  <2>1. Linked(listed)' /\ \A r \in Setters : Linked(taken[r])'
    <3>1. \A r \in Setters : Linked(taken'[r])
      BY <1>0, <1>2 DEF ListsMatch
    <3> QED BY <1>1, <3>1, EmptyList DEF Linked
  <2>2. \A r \in Setters \ {s} : at'[r] = at[r] /\ current'[r] = current[r]
    BY <1>0, <1>1 DEF TypeOK
  <2>3. CASE state \in {SetState, Null}
    <3>1. at'[s] = "idle" /\ listed = <<>>
      BY <1>0, <1>1, <2>3, Parts, ListElements DEF TypeOK, ListsMatch
    <3> QED BY <1>0, <1>1, <1>2, <2>1, <2>2, <3>1 DEF ListsMatch
  <2>4. CASE state \notin {SetState, Null}
    <3>1. at'[s] = "next" /\ current'[s] = state /\ First(listed) = state
      BY <1>0, <1>1, <2>4 DEF TypeOK, ListsMatch
    <3>2. listed # <<>> /\ Head(listed) = state
      BY <2>4, <3>1 DEF First
    <3> QED BY <1>0, <1>1, <1>2, <2>1, <2>2, <3>1, <3>2 DEF ListsMatch
  <2> QED BY <2>3, <2>4
<1>5. Once'
  <2>1. \A d : Held(d)' <=> Held(d)
    BY <1>1, <1>2, EmptyList DEF Held
  <2>2. \A r \in Setters : NoRepeat(taken'[r]) /\ Apart(<<>>, taken'[r])
    BY <1>0, <1>2, EmptyList DEF Once, Apart
  <2>3. \A r, q \in Setters : r # q => Apart(taken'[r], taken'[q])
    BY <1>0, <1>2 DEF Once, Apart
  <2> QED BY <1>0, <1>1, <2>1, <2>2, <2>3, EmptyList DEF Once, Apart
<1>6. LocalsOK'
  BY <1>0, <1>1, <1>2 DEF LocalsOK, TypeOK
<1> QED BY <1>3, <1>4, <1>5, <1>6 DEF IInv

\* Set reads m_Next before it resumes the operation.
LEMMA ReadNextKeeps ==
    ASSUME IInv, NEW s \in Setters, ReadNext(s)
    PROVE  IInv'
<1>0. TypeOK /\ ListsMatch /\ Once /\ LocalsOK
  BY DEF IInv
<1>1. /\ at[s] = "next" /\ following' = [following EXCEPT ![s] = next[current[s]]]
      /\ at' = [at EXCEPT ![s] = "resume"]
      /\ UNCHANGED <<state, next, old, pc, host, awaits, current, listed, taken>>
  BY DEF ReadNext, coroutineVars
<1>2. /\ taken[s] # <<>> /\ Head(taken[s]) = current[s] /\ current[s] \in Coroutines
      /\ next[current[s]] = First(Tail(taken[s]))
  BY <1>0, <1>1, Parts, ListElements, LinkedTail DEF ListsMatch
<1>3. TypeOK'
  BY <1>0, <1>1, <1>2 DEF TypeOK
<1>4. ListsMatch'
  BY <1>0, <1>1, <1>2 DEF ListsMatch, Linked, TypeOK
<1>5. Once'
  BY <1>0, <1>1 DEF Once, Held
<1>6. LocalsOK'
  BY <1>0, <1>1, <1>2 DEF LocalsOK, TypeOK
<1> QED BY <1>3, <1>4, <1>5, <1>6 DEF IInv

\* The first operation leaves the list as its coroutine goes on.
LEMMA ResumeKeeps ==
    ASSUME IInv, NEW s \in Setters, Resume(s)
    PROVE  IInv'
<1>0. TypeOK /\ ListsMatch /\ Once /\ LocalsOK
  BY DEF IInv
<1> DEFINE c == current[s]
<1>1. /\ at[s] = "resume" /\ taken' = [taken EXCEPT ![s] = Tail(@)]
      /\ at' = [at EXCEPT ![s] = "resumed"]
      /\ host' = [host EXCEPT ![c] = s] /\ Continue(c)
      /\ UNCHANGED <<state, next, old, awaits, current, following, listed>>
  BY DEF Resume, Continue
<1>2. taken[s] # <<>> /\ Head(taken[s]) = c /\ c \in Coroutines
  BY <1>0, <1>1, Parts, ListElements DEF ListsMatch
<1> HIDE DEF c
<1>3. /\ taken'[s] = Tail(taken[s]) /\ taken'[s] \in Seq(Coroutines)
      /\ \A r \in Setters \ {s} : taken'[r] = taken[r]
      /\ ToSet(taken[s]) = {c} \cup ToSet(taken'[s]) /\ c \notin ToSet(taken'[s])
      /\ NoRepeat(taken'[s])
  BY <1>0, <1>1, <1>2, Parts, TailList DEF Once, TypeOK
<1>4. /\ pc' \in [Coroutines -> {"running", "load", "push", "suspended", "done"}]
      /\ pc'[c] \in {"running", "done"} /\ \A d \in Coroutines \ {c} : pc'[d] = pc[d]
  BY <1>0, <1>1, <1>2 DEF Continue, TypeOK
<1>5. TypeOK'
  BY <1>0, <1>1, <1>3, <1>4 DEF TypeOK
<1>6. ListsMatch'
  <2>1. Linked(taken'[s]) /\ following[s] = First(taken'[s])
    BY <1>0, <1>1, <1>2, <1>3, Parts, LinkedTail DEF ListsMatch, LocalsOK
  <2>2. Linked(listed)' /\ \A r \in Setters : Linked(taken[r])'
    BY <1>0, <1>1, <1>3, <2>1 DEF Linked, ListsMatch
  <2>3. at'[s] = "resumed" /\ \A r \in Setters \ {s} : at'[r] = at[r]
    BY <1>0, <1>1 DEF TypeOK
  <2> QED BY <1>0, <1>1, <1>3, <2>1, <2>2, <2>3 DEF ListsMatch
<1>7. Once'
  <2>1. c \notin ToSet(listed) /\ \A r \in Setters \ {s} : c \notin ToSet(taken[r])
    BY <1>0, <1>3 DEF Once, Apart
  <2>2. \A d : Held(d)' <=> Held(d) /\ d # c
    BY <1>1, <1>3, <2>1 DEF Held
  <2>3. \A r \in Setters : Apart(listed, taken'[r]) /\ NoRepeat(taken'[r])
    BY <1>0, <1>3 DEF Once, Apart
  <2>4. \A r, q \in Setters : r # q => Apart(taken'[r], taken'[q])
    BY <1>0, <1>3 DEF Once, Apart
  <2>5. \A d \in Coroutines : pc'[d] = "suspended" <=> Held(d)'
    BY <1>0, <1>4, <2>2 DEF Once
  <2> QED BY <1>0, <1>1, <2>3, <2>4, <2>5 DEF Once, Apart, NoRepeat
<1>8. LocalsOK'
  BY <1>0, <1>1, <1>3, <1>4 DEF LocalsOK, TypeOK
<1> QED BY <1>5, <1>6, <1>7, <1>8 DEF IInv

\* Set goes on with the next operation, or ends with an empty list.
LEMMA AdvanceKeeps ==
    ASSUME IInv, NEW s \in Setters, Advance(s)
    PROVE  IInv'
<1>0. TypeOK /\ ListsMatch /\ Once /\ LocalsOK
  BY DEF IInv
<1>1. /\ at[s] = "resumed" /\ current' = [current EXCEPT ![s] = following[s]]
      /\ at' = [at EXCEPT ![s] = IF following[s] = Null THEN "idle" ELSE "next"]
      /\ UNCHANGED <<state, next, old, pc, host, awaits, following, listed, taken>>
  BY DEF Advance, coroutineVars
<1>2. /\ First(taken[s]) = following[s]
      /\ following[s] = Null => taken[s] = <<>>
      /\ following[s] # Null => taken[s] # <<>> /\ Head(taken[s]) = following[s]
  <2>1. First(taken[s]) = following[s]
    BY <1>0, <1>1 DEF ListsMatch
  <2> QED BY <1>0, <2>1, Parts, ListElements DEF First
<1>3. TypeOK'
  BY <1>0, <1>1 DEF TypeOK
<1>4. ListsMatch'
  BY <1>0, <1>1, <1>2 DEF ListsMatch, Linked, TypeOK
<1>5. Once'
  BY <1>0, <1>1 DEF Once, Held
<1>6. LocalsOK'
  BY <1>0, <1>1 DEF LocalsOK, TypeOK
<1> QED BY <1>3, <1>4, <1>5, <1>6 DEF IInv

\* Reset does nothing to a list: it changes m_State only from the set state.
LEMMA ResetKeeps ==
    ASSUME IInv, Reset
    PROVE  IInv'
<1>0. TypeOK /\ ListsMatch /\ Once /\ LocalsOK
  BY DEF IInv
<1>1. /\ state = SetState /\ state' = Null
      /\ UNCHANGED <<next, old, pc, host, awaits, at, current, following, listed, taken>>
  BY DEF Reset, coroutineVars, setterVars
<1>2. TypeOK'
  BY <1>0, <1>1 DEF TypeOK, Pointers
<1>3. ListsMatch'
  BY <1>0, <1>1, NamesAssumption DEF ListsMatch, Linked, First
<1>4. Once' /\ LocalsOK'
  BY <1>0, <1>1 DEF Once, Held, LocalsOK
<1> QED BY <1>2, <1>3, <1>4 DEF IInv

\* IInv holds in every state that can be reached.
THEOREM Inductive == Spec => []IInv
<1>1. IInv /\ [Next]_vars => IInv'
  <2> SUFFICES ASSUME IInv, [Next]_vars PROVE IInv'
    OBVIOUS
  <2>1. CASE UNCHANGED vars
    BY <2>1 DEF vars, coroutineVars, setterVars, IInv, TypeOK, ListsMatch, Linked, Once, Held, LocalsOK
  <2> QED
    BY <2>1, LocalAwaitKeeps, PushKeeps, ExchangeKeeps, ReadNextKeeps, ResumeKeeps, AdvanceKeeps,
       ResetKeeps
    DEF Next, Await, Set
<1> QED BY <1>1, Initial, PTL DEF Spec

-----------------------------------------------------------------------------
(* The properties.                                                         *)

\* Every member of the event, every operation and every local of Set has its
\* type; a Set that reads m_Next reads that of an operation, never of nullptr.
THEOREM TypeCorrect == Spec => []TypeOK
<1>1. IInv => TypeOK
  BY DEF IInv
<1> QED BY <1>1, Inductive, PTL

\* The pointers of the lock-free list are the lists of those that wait, whatever
\* operations are reused and whatever compare_exchange sees come back.
THEOREM PointersAreLists == Spec => []ListsMatch
<1>1. IInv => ListsMatch
  BY DEF IInv
<1> QED BY <1>1, Inductive, PTL

\* The entries of a coroutine, member by member.
LEMMA EntriesOf ==
    ASSUME NEW c
    PROVE  \A x : x \in Entries(c) <=>
               \/ \E i \in DOMAIN listed : listed[i] = c /\ x = <<Null, i>>
               \/ \E s \in Setters : \E i \in DOMAIN taken[s] : taken[s][i] = c /\ x = <<s, i>>
<1> DEFINE own == {<<Null, i>> : i \in {n \in DOMAIN listed : listed[n] = c}}
           of(s) == {<<s, i>> : i \in {n \in DOMAIN taken[s] : taken[s][n] = c}}
<1>1. Entries(c) = own \cup UNION {of(s) : s \in Setters}
  BY Zenon DEF Entries
<1>2. \A x : x \in UNION {of(s) : s \in Setters} <=> \E s \in Setters : x \in of(s)
  <2> HIDE DEF of
  <2> QED BY Zenon
<1>3. \A x : x \in own <=> \E i \in DOMAIN listed : listed[i] = c /\ x = <<Null, i>>
  BY Zenon
<1>4. \A s : \A x : x \in of(s) <=> \E i \in DOMAIN taken[s] : taken[s][i] = c /\ x = <<s, i>>
  BY Zenon
<1> HIDE DEF own, of
<1> QED BY <1>1, <1>2, <1>3, <1>4

\* A coroutine is in one list, once, exactly while it is suspended: no Set resumes
\* it twice or while it runs, and none is forgotten, for any number of either.
THEOREM ResumedByOne == Spec => []SuspendedOnce
<1>1. IInv => SuspendedOnce
  <2> SUFFICES ASSUME IInv, NEW c \in Coroutines
               PROVE  /\ pc[c] = "suspended" => \E e \in Entries(c) : Entries(c) = {e}
                      /\ pc[c] # "suspended" => Entries(c) = {}
    BY DEF SuspendedOnce
  <2>0. Once
    BY DEF IInv
  <2>1. \A q : c \in ToSet(q) <=> \E i \in DOMAIN q : q[i] = c
    BY DEF ToSet
  <2>2. CASE ~Held(c)
    <3>1. Entries(c) = {}
      BY <2>1, <2>2, EntriesOf DEF Held
    <3> QED BY <2>0, <2>2, <3>1 DEF Once
  <2>3. CASE Held(c)
    <3> SUFFICES \E e : Entries(c) = {e}
      BY <2>0, <2>3 DEF Once
    <3>1. CASE c \in ToSet(listed)
      <4>1. PICK i \in DOMAIN listed : listed[i] = c
        BY <2>1, <3>1
      <4>2. \A k \in DOMAIN listed : listed[k] = c => k = i
        BY <2>0, <4>1 DEF Once, NoRepeat
      <4>3. \A s \in Setters : c \notin ToSet(taken[s])
        BY <2>0, <3>1 DEF Once, Apart
      <4>4. Entries(c) = {<<Null, i>>}
        BY <2>1, <4>1, <4>2, <4>3, EntriesOf
      <4> QED BY <4>4
    <3>2. ASSUME NEW s \in Setters, c \in ToSet(taken[s])
          PROVE  \E e : Entries(c) = {e}
      <4>1. PICK i \in DOMAIN taken[s] : taken[s][i] = c
        BY <2>1, <3>2
      <4>2. \A k \in DOMAIN taken[s] : taken[s][k] = c => k = i
        BY <2>0, <4>1 DEF Once, NoRepeat
      <4>3. c \notin ToSet(listed) /\ \A r \in Setters : r # s => c \notin ToSet(taken[r])
        BY <2>0, <3>2 DEF Once, Apart
      <4>4. Entries(c) = {<<s, i>>}
        BY <2>1, <4>1, <4>2, <4>3, EntriesOf
      <4> QED BY <4>4
    <3> QED BY <2>3, <3>1, <3>2 DEF Held
  <2> QED BY <2>2, <2>3
<1> QED BY <1>1, Inductive, PTL

-----------------------------------------------------------------------------
(* The pointers implement the event its users see.                         *)

\* The event's sets, as ImplementsEvent substitutes them.
Waiting  == ToSet(listed)
Released == UNION {ToSet(taken[s]) : s \in Setters}

\* A coroutine that is in no list joins the event's list only while it is not set;
\* Set releases the whole list; Resume wakes one released coroutine; Reset clears
\* the event; every other step is a stutter.
LEMMA StepOfEvent == IInv /\ [Next]_vars => [Promise!EventNext]_(Promise!eventVars)
<1> SUFFICES ASSUME IInv, [Next]_vars PROVE [Promise!EventNext]_(Promise!eventVars)
  OBVIOUS
<1>0. TypeOK /\ ListsMatch /\ Once /\ LocalsOK
  BY DEF IInv
<1>1. \A c : c \in Released <=> \E s \in Setters : c \in ToSet(taken[s])
  BY DEF Released
<1>2. \A c : c \in Released' <=> \E s \in Setters : c \in ToSet(taken'[s])
  BY DEF Released
<1>3. ASSUME UNCHANGED <<state, listed, taken>>
      PROVE  UNCHANGED Promise!eventVars
  BY <1>3 DEF Promise!eventVars
<1>4. ASSUME NEW c \in Coroutines, PushSucceeds(c) PROVE Promise!Suspend(c)
  <2>1. state # SetState /\ state' # SetState
    BY <1>0, <1>4, NamesAssumption DEF PushSucceeds, TypeOK, Pointers
  <2>2. Waiting' = Waiting \cup {c} /\ taken' = taken
    BY <1>0, <1>4, Parts, PushedList DEF PushSucceeds, Waiting
  <2>3. c \notin Waiting \cup Released
    BY <1>0, <1>1, <1>4 DEF PushSucceeds, Once, Held, Waiting
  <2> QED BY <2>1, <2>2, <2>3 DEF Promise!Suspend, Waiting, Released
<1>5. ASSUME NEW s \in Setters, Exchange(s) PROVE Promise!Release
  <2>1. /\ taken'[s] = listed /\ \A r \in Setters \ {s} : taken'[r] = taken[r]
        /\ taken[s] = <<>> /\ listed' = <<>> /\ state' = SetState
    BY <1>0, <1>5 DEF Exchange, TypeOK, ListsMatch
  <2>2. Released' = Released \cup Waiting
    BY <1>1, <1>2, <2>1, EmptyList DEF Waiting
  <2>3. Waiting' = {}
    BY <2>1, EmptyList DEF Waiting
  <2> QED BY <2>1, <2>2, <2>3 DEF Promise!Release, Waiting, Released
<1>6. ASSUME NEW s \in Setters, Resume(s) PROVE Promise!Wake(current[s]) /\ current[s] \in Coroutines
  <2>1. taken[s] # <<>> /\ Head(taken[s]) = current[s] /\ current[s] \in Coroutines
    BY <1>0, <1>6, Parts, ListElements DEF Resume, ListsMatch
  <2>2. /\ taken'[s] = Tail(taken[s]) /\ \A r \in Setters \ {s} : taken'[r] = taken[r]
        /\ UNCHANGED <<state, listed>>
    BY <1>0, <1>6 DEF Resume, TypeOK
  <2>3. /\ ToSet(taken[s]) = {current[s]} \cup ToSet(taken'[s])
        /\ current[s] \notin ToSet(taken'[s])
    BY <1>0, <2>1, <2>2, Parts, TailList DEF Once
  <2>4. \A r \in Setters \ {s} : current[s] \notin ToSet(taken[r])
    BY <1>0, <2>3 DEF Once, Apart
  <2>5. Released' = Released \ {current[s]} /\ current[s] \in Released
    BY <1>1, <1>2, <2>2, <2>3, <2>4
  <2> QED BY <2>1, <2>2, <2>5 DEF Promise!Wake, Waiting, Released
<1>7. ASSUME Reset PROVE Promise!Clear
  BY <1>7, NamesAssumption DEF Reset, Promise!Clear
<1>8. ASSUME NEW c \in Coroutines, AwaitReady(c) \/ Load(c) \/ PushFails(c)
      PROVE  UNCHANGED <<state, listed, taken>>
  BY <1>0, <1>8, LocalAwait
<1>9. ASSUME NEW s \in Setters, ReadNext(s) \/ Advance(s)
      PROVE  UNCHANGED <<state, listed, taken>>
  BY <1>9 DEF ReadNext, Advance
<1>10. CASE UNCHANGED vars
  BY <1>3, <1>10 DEF vars
<1> QED
  BY <1>3, <1>4, <1>5, <1>6, <1>7, <1>8, <1>9, <1>10 DEF Next, Await, Set, Promise!EventNext

\* The lock-free list is a manual-reset event: the next Set releases all who wait,
\* each is resumed once, and an await of a set event does not wait.
THEOREM ImplementsPromise == Spec => ImplementsEvent
<1>1. Init => Promise!EventInit
  <2> SUFFICES ASSUME Init PROVE Promise!EventInit
    OBVIOUS
  <2>1. Waiting = {} /\ Released = {}
    BY EmptyList DEF Init, Waiting, Released
  <2> QED BY <2>1, NamesAssumption DEF Init, Promise!EventInit, Waiting, Released
<1> QED BY <1>1, StepOfEvent, Inductive, PTL DEF Spec, ImplementsEvent, Promise!EventSpec

=============================================================================
