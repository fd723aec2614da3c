SPECIFICATION Spec
CONSTANTS
    NoJob = NoJob
    main = main
    helper = helper
    w1 = w1
    w2 = w2
    empty = empty
    once = once
    op = op
    join = join
    fire = fire
    CountBits = 13
    Careful = TRUE
    Jobs <- ForkJobs
    Clients <- MCClients
    Workers <- MCWorkers
    InitialPriority <- ForkPriority
    EmptyJobs = {}
    OneTimeJobs = {}
    Operations = {}
    Attachments <- ForkAttachments
    Priorities = {}
INVARIANT
    AllRan
