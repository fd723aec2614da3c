SPECIFICATION Spec
CONSTANTS
    NoJob = NoJob
    main = main
    helper = helper
    w1 = w1
    w2 = w2
    empty = empty
    once = once
    op = op
    join = join
    fire = fire
    CountBits = 13
    Careful = FALSE
    Jobs <- PairJobs
    Clients <- MCClients
    Workers <- MCWorkers
    InitialPriority <- PairPriority
    EmptyJobs = {}
    OneTimeJobs = {}
    Operations = {}
    Attachments <- PairAttachments
    Priorities <- MCPriorities
INVARIANT
    AllRan
