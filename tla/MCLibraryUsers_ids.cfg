CONSTANTS
    one = one
    other = other
    c1 = c1
    c2 = c2
    Processes <- TwoProcesses
    Communicators <- OneEach
    ProcessOf <- Apart
    MaxConstructions = 2
SPECIFICATION UsersSpec
INVARIANT IdsAreUnique
CHECK_DEADLOCK FALSE
