----------------------------- MODULE MCAsyncEvent -----------------------------
(* Three coroutines, so that a list has a middle, that await twice each,   *)
(* and two threads that set the event at the same time.                    *)
EXTENDS AsyncEvent

CONSTANTS c1, c2, c3, s1, s2

MCCoroutines == {c1, c2, c3}
MCSetters == {s1, s2}
=============================================================================
