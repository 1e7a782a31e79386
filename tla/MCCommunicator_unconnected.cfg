CONSTANTS
    t1 = t1
    t2 = t2
    main = main
    worker = worker
    q0 = q0
    q1 = q1
    q2 = q2
    Topics <- OneTopic
    Messages <- NoMessages
    Qos <- QosOfEach
    MaxSends = 0
    Threads <- OneThread
    Operations <- ConnectAndDestroy
    Faults = {}
    MaxFaults = 0
    Timeouts = {"max"}
    MaxOut = 2
    Overlap = FALSE
SPECIFICATION FairSpec
CHECK_DEADLOCK FALSE
PROPERTY DestructorReturns
