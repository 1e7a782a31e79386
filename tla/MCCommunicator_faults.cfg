CONSTANTS
    t1 = t1
    t2 = t2
    main = main
    worker = worker
    q0 = q0
    q1 = q1
    q2 = q2
    Topics <- OneTopic
    Messages <- OneOfEach
    Qos <- QosOfEach
    MaxSends = 1
    Threads <- TwoThreads
    Operations <- DividedForGood
    Faults = {"loss", "refused", "unreachable"}
    MaxFaults = 2
    Timeouts = {"max", "finite"}
    MaxOut = 2
    Overlap = TRUE
SPECIFICATION FairSpec
INVARIANTS
    TypeOK
    ResubscribedIsComplete
    SessionIsKnown
    AtLeastOnce
    
PROPERTIES
    ConnectReturns
    Reconnects
    FlagIsPutRight
    SentIsDelivered
