CONSTANTS
    Values <- SomeValues
    Empty = ""
    Bad = "bad"
    BadItem = "bad item"
    Settable <- SomeTags
    Outcomes <- Two
    MaxTasks = 2
    MaxFields = 2
    UsedTasks <- Stopped
    UsedResults <- TwoStopped
    process = process
    c1 = c1
    c2 = c2
    c3 = c3
    Processes <- OneProcess
    Communicators <- Three
    ProcessOf <- SameProcess
    MaxConstructions = 4
    TimerNames = {"n", "m"}
    MaxTime = 3
    MaxDelay = 1
    Opts = {o1, o2, o3}
    Cells = {h1, h2, h3, h4}
    Tags = {"t"}
    NoTag = ""
    Contents = {"x", "y"}
    Null = Null
    Numbers16 <- Sample16
    TypedTexts <- Typed
    NoText = NoText
    UlongMax = 1048575
SPECIFICATION PartsSpec
INVARIANTS
    PartsTypeOK
    OwnRequestsAreRead
    RequestIsUnderstood
    AnswerIsTracked
    ResultsAreCurrent
    WrittenIsRead
    KindsAreTold
    InitializedForUsers
    ElapsedIsRunTime
    OneOwner
    IdsArrive
    AddressIsNew
PROPERTIES
    AllOrNothing
    MeasuredOnce
    CopiesAreIndependent
