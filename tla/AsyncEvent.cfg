SPECIFICATION FairSpec
CONSTANTS
    c1 = c1
    c2 = c2
    c3 = c3
    s1 = s1
    s2 = s2
    Null = Null
    SetState = SetState
    MaxAwaits = 2
    Coroutines <- MCCoroutines
    Setters <- MCSetters
INVARIANTS
    TypeOK
    ListsMatch
    SuspendedOnce
PROPERTIES
    ImplementsEvent
    ReleasedIsResumed
