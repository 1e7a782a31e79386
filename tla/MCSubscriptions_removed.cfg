CONSTANTS
    main = main
    worker = worker
    Threads <- TwoThreads
    Names = {"a", "b", "c", "$S"}
    Reserved = {"$S"}
    Filters <- ThreeFilters
    Topics <- SomeTopics
    Getters <- Owner
    Removers <- Everybody
    MaxObjects = 3
    MaxMessages = 2
SPECIFICATION Spec
INVARIANT ReferencesStayValid
