------------------------------ MODULE AsyncEvent ------------------------------
(***************************************************************************)
(* The lock-free event of UnAsync/AsyncEvent.{h,cpp}, at the level of its  *)
(* pointers.  m_State is nullptr, the event itself when it is set, or the  *)
(* head of the list of AsyncEventOperations that await it, linked by       *)
(* m_Next.  A coroutine has one operation at a time, in its own frame, so  *)
(* the operation is named after the coroutine and its storage is reused by *)
(* the coroutine's next await.                                             *)
(*                                                                         *)
(* Set resumes coroutines on its own thread: it goes on when the coroutine *)
(* has suspended again or ended.  compare_exchange_weak does not fail      *)
(* spuriously on the x86 processors the library is written for             *)
(* (JobScheduler.h:115).                                                   *)
(***************************************************************************)
EXTENDS Naturals, SequencesExt

CONSTANTS
    Coroutines,
    Setters,        \* the threads that call Set
    Null,           \* nullptr
    SetState,       \* static_cast<void*>(this)
    MaxAwaits       \* bound: how often a coroutine awaits the event

ASSUME NamesAssumption ==
    /\ Null \notin Coroutines /\ SetState \notin Coroutines /\ Null # SetState
    /\ Coroutines \cap Setters = {}
    /\ Null \notin Setters /\ SetState \notin Setters

ASSUME MaxAwaitsAssumption == MaxAwaits \in Nat

Pointers == Coroutines \cup {Null}

VARIABLES
    state,      \* m_State
    next,       \* m_Next of each operation
    old,        \* await_suspend's oldState
    pc,         \* where each coroutine is
    host,       \* the thread a coroutine runs on: its own one at first
    awaits,     \* how often it has awaited
    at,         \* where each thread is in Set
    current,    \* Set's current
    following,  \* Set's next
    listed,     \* auxiliary: the list of operations from m_State on
    taken       \* auxiliary: the operations each Set has still to resume

coroutineVars == <<next, old, pc, host, awaits>>
setterVars == <<at, current, following>>
vars == <<state, coroutineVars, setterVars, listed, taken>>

Init ==
    /\ state \in {Null, SetState}     \* the argument initial
    /\ next = [c \in Coroutines |-> Null]
    /\ old = [c \in Coroutines |-> Null]
    /\ pc = [c \in Coroutines |-> "running"]
    /\ host = [c \in Coroutines |-> c]
    /\ awaits = [c \in Coroutines |-> 0]
    /\ at = [s \in Setters |-> "idle"]
    /\ current = [s \in Setters |-> Null]
    /\ following = [s \in Setters |-> Null]
    /\ listed = <<>>
    /\ taken = [s \in Setters |-> <<>>]

-----------------------------------------------------------------------------
(* A coroutine awaits the event.                                           *)

Continue(c) ==
    /\ pc' = [pc EXCEPT ![c] = IF awaits[c] < MaxAwaits THEN "running" ELSE "done"]
    /\ UNCHANGED <<next, old>>

\* Mutant: the set state is tested before the loop only.
SeenUnchecked(c, seen) ==
    /\ old' = [old EXCEPT ![c] = seen]
    /\ next' = [next EXCEPT ![c] = seen]
    /\ pc' = [pc EXCEPT ![c] = "push"]

\* The test of oldState in the loop of await_suspend: the event was set
\* meanwhile, or try to push in front of what was seen.
Seen(c, seen) ==
    IF seen = SetState
    THEN Continue(c)
    ELSE /\ old' = [old EXCEPT ![c] = seen]
         /\ next' = [next EXCEPT ![c] = seen]
         /\ pc' = [pc EXCEPT ![c] = "push"]

\* await_ready
AwaitReady(c) ==
    /\ pc[c] = "running"
    /\ awaits[c] < MaxAwaits
    /\ awaits' = [awaits EXCEPT ![c] = @ + 1]
    /\ pc' = [pc EXCEPT ![c] =
           IF state # SetState THEN "load" ELSE IF awaits[c] + 1 < MaxAwaits THEN "running" ELSE "done"]
    /\ UNCHANGED <<state, next, old, host, setterVars, listed, taken>>

Load(c) ==
    /\ pc[c] = "load"
    /\ Seen(c, state)
    /\ UNCHANGED <<state, host, awaits, setterVars, listed, taken>>

PushFails(c) ==
    /\ pc[c] = "push"
    /\ state # old[c]
    /\ Seen(c, state)
    /\ UNCHANGED <<state, host, awaits, setterVars, listed, taken>>

\* From here on the coroutine is suspended and any thread may resume it.
PushSucceeds(c) ==
    /\ pc[c] = "push"
    /\ state = old[c]
    /\ state' = c
    /\ pc' = [pc EXCEPT ![c] = "suspended"]
    /\ host' = [host EXCEPT ![c] = Null]
    /\ listed' = <<c>> \o listed
    /\ UNCHANGED <<next, old, awaits, setterVars, taken>>

Await(c) == AwaitReady(c) \/ Load(c) \/ PushFails(c) \/ PushSucceeds(c)

-----------------------------------------------------------------------------
(* Set and Reset.                                                          *)

\* Mutant: the list is read and not taken out of m_State.
LoadList(s) ==
    /\ at[s] = "idle"
    /\ state \notin {SetState, Null}
    /\ current' = [current EXCEPT ![s] = state]
    /\ at' = [at EXCEPT ![s] = "next"]
    /\ taken' = [taken EXCEPT ![s] = listed]
    /\ UNCHANGED <<state, coroutineVars, following, listed>>

Exchange(s) ==
    /\ at[s] = "idle"
    /\ state' = SetState
    /\ current' = [current EXCEPT ![s] = IF state = SetState THEN Null ELSE state]
    /\ at' = [at EXCEPT ![s] = IF state \in {SetState, Null} THEN "idle" ELSE "next"]
    /\ listed' = <<>>
    /\ taken' = [taken EXCEPT ![s] = listed]
    /\ UNCHANGED <<coroutineVars, following>>

ReadNext(s) ==
    /\ at[s] = "next"
    /\ following' = [following EXCEPT ![s] = next[current[s]]]
    /\ at' = [at EXCEPT ![s] = "resume"]
    /\ UNCHANGED <<state, coroutineVars, current, listed, taken>>

Resume(s) ==
    /\ at[s] = "resume"
    /\ LET c == current[s]
       IN  /\ host' = [host EXCEPT ![c] = s]
           /\ Continue(c)
    /\ at' = [at EXCEPT ![s] = "resumed"]
    /\ taken' = [taken EXCEPT ![s] = Tail(@)]
    /\ UNCHANGED <<state, awaits, current, following, listed>>

\* Mutant: m_Next is read after resume(), in a frame that may be reused or gone.
AdvanceReread(s) ==
    /\ at[s] = "resumed"
    /\ \A c \in Coroutines : host[c] = s => pc[c] = "done"
    /\ current' = [current EXCEPT ![s] = next[current[s]]]
    /\ at' = [at EXCEPT ![s] = IF next[current[s]] = Null THEN "idle" ELSE "next"]
    /\ UNCHANGED <<state, coroutineVars, following, listed, taken>>

\* Mutant: only the first waiter is resumed.
AdvanceOnce(s) ==
    /\ at[s] = "resumed"
    /\ \A c \in Coroutines : host[c] = s => pc[c] = "done"
    /\ at' = [at EXCEPT ![s] = "idle"]
    /\ UNCHANGED <<state, coroutineVars, current, following, listed, taken>>

\* resume() returns when the coroutine has suspended or ended.
Advance(s) ==
    /\ at[s] = "resumed"
    /\ \A c \in Coroutines : host[c] = s => pc[c] = "done"
    /\ current' = [current EXCEPT ![s] = following[s]]
    /\ at' = [at EXCEPT ![s] = IF following[s] = Null THEN "idle" ELSE "next"]
    /\ UNCHANGED <<state, coroutineVars, following, listed, taken>>

Set(s) == Exchange(s) \/ ReadNext(s) \/ Resume(s) \/ Advance(s)

\* Mutant: store(nullptr) instead of the compare_exchange.
ResetAlways ==
    /\ state' = Null
    /\ listed' = <<>>
    /\ UNCHANGED <<coroutineVars, setterVars, taken>>

Reset ==
    /\ state = SetState
    /\ state' = Null
    /\ UNCHANGED <<coroutineVars, setterVars, listed, taken>>

Next == Reset \/ (\E c \in Coroutines : Await(c)) \/ (\E s \in Setters : Set(s))

Spec == Init /\ [][Next]_vars

(***************************************************************************)
(* A Set that has begun is carried on, and a running coroutine reaches its *)
(* next await or its end.  Nobody has to call Set or Reset.                *)
(***************************************************************************)
FairSpec ==
    /\ Spec
    /\ \A c \in Coroutines : WF_vars(Await(c))
    /\ \A s \in Setters : WF_vars(at[s] # "idle" /\ Set(s))

-----------------------------------------------------------------------------
TypeOK ==
    /\ state \in Pointers \cup {SetState}
    /\ next \in [Coroutines -> Pointers]
    /\ old \in [Coroutines -> Pointers]
    /\ pc \in [Coroutines -> {"running", "load", "push", "suspended", "done"}]
    /\ host \in [Coroutines -> Coroutines \cup Setters \cup {Null}]
    /\ awaits \in [Coroutines -> 0 .. MaxAwaits]
    /\ at \in [Setters -> {"idle", "next", "resume", "resumed"}]
    /\ current \in [Setters -> Pointers]
    /\ following \in [Setters -> Pointers]
    /\ listed \in Seq(Coroutines)
    /\ taken \in [Setters -> Seq(Coroutines)]

First(q) == IF q = <<>> THEN Null ELSE Head(q)

Linked(q) == \A i \in DOMAIN q : next[q[i]] = IF i < Len(q) THEN q[i + 1] ELSE Null

\* The pointers are the lists: from m_State, and from where each Set is, following
\* m_Next leads through exactly the operations that wait there and ends in
\* nullptr, although their storage is reused and compare_exchange only compares
\* the head (which may have left and come back, the ABA case).
ListsMatch ==
    /\ state # SetState => First(listed) = state
    /\ state = SetState => listed = <<>>
    /\ Linked(listed)
    /\ \A s \in Setters :
        /\ Linked(taken[s])
        /\ at[s] \in {"next", "resume"} => taken[s] # <<>> /\ Head(taken[s]) = current[s]
        /\ at[s] = "resumed" => First(taken[s]) = following[s]
        /\ at[s] = "idle" => taken[s] = <<>>

\* Occurrences of a coroutine in the lists.
Entries(c) ==
    {<<Null, i>> : i \in {n \in DOMAIN listed : listed[n] = c}}
    \cup UNION {{<<s, i>> : i \in {n \in DOMAIN taken[s] : taken[s][n] = c}} : s \in Setters}

\* A coroutine is in one list, once, exactly while it is suspended: it is never
\* resumed twice, nor while it runs (undefined for a coroutine), and none is
\* suspended where no Set will find it.
SuspendedOnce ==
    \A c \in Coroutines :
        /\ pc[c] = "suspended" => \E e \in Entries(c) : Entries(c) = {e}
        /\ pc[c] # "suspended" => Entries(c) = {}

-----------------------------------------------------------------------------
Promise == INSTANCE EventPromise WITH
    isSet    <- state = SetState,
    waiting  <- ToSet(listed),
    released <- UNION {ToSet(taken[s]) : s \in Setters}

\* The lists of pointers behave as the event the users see.
ImplementsEvent == Promise!EventSpec

\* A released coroutine is resumed, even when the event is reset meanwhile and
\* when those before it in the list await the event again.
ReleasedIsResumed ==
    \A c \in Coroutines :
        (\E s \in Setters : c \in ToSet(taken[s])) ~> (pc[c] # "suspended")
=============================================================================
