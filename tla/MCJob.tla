-------------------------------- MODULE MCJob --------------------------------
(* A two-bit counter, so that a job with three parents is at the limit of  *)
(* GetMaxDependencyCount: join has an empty, a one-time and an awaited     *)
(* parent; fire is a job of RunOneTime.                                    *)
EXTENDS Job

CONSTANTS main, helper, w1, w2, empty, once, op, join, fire

MCClients == {main, helper}
MCWorkers == {w1, w2}
MCJobs == {empty, once, op, join, fire}
MCInitialPriority == [j \in MCJobs |-> IF j = join THEN 3 ELSE 1]
MCOneTime == {once, fire}
MCAttachments == {<<join, empty>>, <<join, once>>, <<join, op>>}
MCPriorities == {<<join, 2>>}

\* One job with one parent.
PairJobs == {once, join}
PairPriority == [j \in PairJobs |-> 1]
PairAttachments == {<<join, once>>}

\* Two jobs that depend on the same parent.
ForkJobs == {once, join, op}
ForkPriority == [j \in ForkJobs |-> 1]
ForkAttachments == {<<join, once>>, <<op, once>>}
=============================================================================
