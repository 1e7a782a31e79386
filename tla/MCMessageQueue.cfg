CONSTANTS
    Consumers = {c1, c2, c3}
    MaxMessages = 3
    MallocMayFail = TRUE
    Durations = {"max", "finite"}
SPECIFICATION CrewSpec
INVARIANTS
    TypeOK
    Ownership
    ArrivalOrder
    NeverAllAsleep
PROPERTIES
    KeepsPromise
    QueueDrains
    LonePromiseIsFair
