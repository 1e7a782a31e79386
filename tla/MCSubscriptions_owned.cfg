CONSTANTS
    main = main
    worker = worker
    Threads <- TwoThreads
    Names = {"a", "b", "c", "$S"}
    Reserved = {"$S"}
    Filters <- ThreeFilters
    Topics <- SomeTopics
    Getters <- Owner
    Removers <- Owner
    MaxObjects = 3
    MaxMessages = 2
SPECIFICATION Spec
INVARIANTS
    TypeOK
    ReferencesStayValid
    DispatchIsSafe
    NobodyIsForgotten
PROPERTY FollowsTheBroker
