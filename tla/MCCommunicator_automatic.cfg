CONSTANTS
    t1 = t1
    t2 = t2
    main = main
    worker = worker
    q0 = q0
    q1 = q1
    q2 = q2
    Topics <- OneTopic
    Messages <- NoMessages
    Qos <- QosOfEach
    MaxSends = 0
    Threads <- OneThread
    Operations <- ConnectAndAdd
    Faults = {"loss"}
    MaxFaults = 1
    Timeouts = {"max"}
    MaxOut = 2
    Overlap = FALSE
SPECIFICATION Spec
INVARIANT NoSubscriptionIsMissing
