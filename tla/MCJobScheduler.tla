--------------------------- MODULE MCJobScheduler ---------------------------
(* One or two workers and one external thread.  The external thread        *)
(* schedules root and urgent; root schedules a job and an empty job, and   *)
(* the empty job has a dependent: inline execution inside a job, a local   *)
(* queue with two jobs of different priority, a job to steal, and a global *)
(* queue that grows while workers fall asleep.                             *)
EXTENDS JobScheduler

CONSTANTS e1, root, urgent, child, barrier, dependent

MCExternals == {e1}
MCJobs == {root, urgent, child, barrier, dependent}
MCPriority == [j \in MCJobs |-> CASE j = child -> 1 [] j = dependent -> 2 [] j = urgent -> 3 [] OTHER -> 0]
MCChanges == {<<child, 3>>}
MCEmptyJobs == {barrier}
MCSpawns == [j \in MCJobs |-> CASE j = root -> {child, barrier} [] j = barrier -> {dependent} [] OTHER -> {}]

\* A single job, to see what becomes of it.
OneJob == {root}
OneJobPriority == [j \in OneJob |-> 1]
OneJobSpawns == [j \in OneJob |-> {}]
=============================================================================
