SPECIFICATION FairSpec
CONSTANTS
    WorkerCount = 2
    e1 = e1
    root = root
    urgent = urgent
    child = child
    barrier = barrier
    dependent = dependent
    Externals <- MCExternals
    Jobs <- MCJobs
    FirstPriority <- MCPriority
    Changes <- MCChanges
    EmptyJobs <- MCEmptyJobs
    Spawns <- MCSpawns
INVARIANTS
    TypeOK
    SleepAccounting
    WakeTokens
    JobInOnePlace
    UndisturbedInOrder
    LocalQueueDrained
    WithinLifetime
PROPERTIES
    ImplementsPool
    TakenUnlessAllAsleep
    LocalJobTaken
    ShutdownCompletes
