CONSTANTS
    t1 = t1
    t2 = t2
    main = main
    worker = worker
    q0 = q0
    q1 = q1
    q2 = q2
    Topics <- TwoTopics
    Messages <- NoMessages
    Qos <- QosOfEach
    MaxSends = 0
    Threads <- TwoThreads
    Operations <- Divided
    Faults = {}
    MaxFaults = 0
    Timeouts = {"max"}
    MaxOut = 2
    Overlap = FALSE
SPECIFICATION FairSpec
CHECK_DEADLOCK FALSE
INVARIANTS
    FlagIsTruthful
    NoSubscriptionIsMissing
PROPERTIES
    ReturnsEstablished
    DestructorReturnsUnlessErased
