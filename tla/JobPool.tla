------------------------------- MODULE JobPool -------------------------------
(***************************************************************************)
(* What a scheduler promises its users (IJobScheduler): a job handed to    *)
(* ScheduleJob is executed at most once, by one thread, and only jobs that *)
(* were handed over are.  An empty job may be executed inside the call.    *)
(* JobScheduler implements this specification; Job relies on it.           *)
(***************************************************************************)
CONSTANT Jobs

VARIABLES
    waiting,    \* handed to ScheduleJob and not started
    running,    \* being executed
    finished    \* executed

poolVars == <<waiting, running, finished>>

PoolInit == waiting = {} /\ running = {} /\ finished = {}

Known == waiting \cup running \cup finished

Submit(j) ==
    /\ j \notin Known
    /\ waiting' = waiting \cup {j}
    /\ UNCHANGED <<running, finished>>

RunInline(j) ==
    /\ j \notin Known
    /\ running' = running \cup {j}
    /\ UNCHANGED <<waiting, finished>>

Take(j) ==
    /\ j \in waiting
    /\ waiting' = waiting \ {j}
    /\ running' = running \cup {j}
    /\ UNCHANGED finished

Done(j) ==
    /\ j \in running
    /\ running' = running \ {j}
    /\ finished' = finished \cup {j}
    /\ UNCHANGED waiting

PoolNext == \E j \in Jobs : Submit(j) \/ RunInline(j) \/ Take(j) \/ Done(j)

PoolSpec == PoolInit /\ [][PoolNext]_poolVars
=============================================================================
