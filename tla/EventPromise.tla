----------------------------- MODULE EventPromise -----------------------------
(***************************************************************************)
(* What an AsyncEvent promises its users: a manual-reset event.  An await  *)
(* of a set event goes on at once; otherwise the coroutine waits, and the  *)
(* next Set releases every coroutine that waits at that moment, each of    *)
(* which is then resumed once.  AsyncEvent implements this specification.  *)
(***************************************************************************)
CONSTANT Coroutines

VARIABLES
    isSet,      \* the event
    waiting,    \* the coroutines suspended on it
    released    \* those a Set has released and not yet resumed

eventVars == <<isSet, waiting, released>>

EventInit == isSet \in BOOLEAN /\ waiting = {} /\ released = {}

Suspend(c) ==
    /\ ~isSet
    /\ c \notin waiting \cup released
    /\ waiting' = waiting \cup {c}
    /\ UNCHANGED <<isSet, released>>

Release ==
    /\ isSet' = TRUE
    /\ waiting' = {}
    /\ released' = released \cup waiting

Clear ==
    /\ isSet' = FALSE
    /\ isSet
    /\ UNCHANGED <<waiting, released>>

Wake(c) ==
    /\ c \in released
    /\ released' = released \ {c}
    /\ UNCHANGED <<isSet, waiting>>

EventNext == Release \/ Clear \/ \E c \in Coroutines : Suspend(c) \/ Wake(c)

EventSpec == EventInit /\ [][EventNext]_eventVars
=============================================================================
