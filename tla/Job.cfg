SPECIFICATION Spec
CONSTANTS
    NoJob = NoJob
    main = main
    helper = helper
    w1 = w1
    w2 = w2
    empty = empty
    once = once
    op = op
    join = join
    fire = fire
    CountBits = 2
    Careful = TRUE
    Jobs <- MCJobs
    Clients <- MCClients
    Workers <- MCWorkers
    InitialPriority <- MCInitialPriority
    EmptyJobs = {empty}
    OneTimeJobs <- MCOneTime
    Operations = {op}
    Attachments <- MCAttachments
    Priorities <- MCPriorities
INVARIANTS
    TypeOK
    StartsAfterParents
    SubmittedOnce
    AllRan
    QueuedPriorityIntact
    NoUseAfterDestroy
