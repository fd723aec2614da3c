SPECIFICATION FairSpec
CONSTANTS
    WorkerCount = 2
    e1 = e1
    root = root
    urgent = urgent
    child = child
    barrier = barrier
    dependent = dependent
    Externals <- MCExternals
    Jobs <- OneJob
    FirstPriority <- OneJobPriority
    Changes = {}
    EmptyJobs = {}
    Spawns <- OneJobSpawns
PROPERTY
    ScheduledJobRuns
