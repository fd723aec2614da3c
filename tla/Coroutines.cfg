SPECIFICATION FairSpec
CONSTANTS
    main0 = main0
    w1 = w1
    w2 = w2
    sync = sync
    test1 = test1
    all1 = all1
    all2 = all2
    all3 = all3
    hops = hops
    quick = quick
    nested = nested
    last = last
    all4 = all4
    all5 = all5
    fails1 = fails1
    fails2 = fails2
    fails3 = fails3
    all6 = all6
    w3 = w3
    skipped = skipped
    None = None
    Main = main0
    Root = sync
    Workers <- MCWorkers
    Coroutines <- MCCoroutines
    Kind <- MCKind
    Script <- MCScript
    Fails <- MCFails
    Neighbours = {0}
INVARIANTS
    TypeOK
    ResumedOnce
    AwaitedIsDone
    FramesOutlive
    ResultsDelivered
PROPERTY
    SyncWaitReturns
