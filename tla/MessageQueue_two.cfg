CONSTANTS
    Consumers = {c1, c2}
    MaxMessages = 2
    MallocMayFail = FALSE
    Durations = {"max"}
SPECIFICATION FairSpec
PROPERTY WaiterIsServed
