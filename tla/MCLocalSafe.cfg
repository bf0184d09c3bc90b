CONSTANTS
    MaxNode = 2
    Simulated = {1, 2}
    Declared = {}
    InitRoles <- TwoNodeRoles
    Switchable = {}
    Faulty = {2}
    MaxJob = 1
    FirstTask <- OneTask
    TaskCount <- TwoTasks
    MaxTaskAttempts = 2
    AttemptMax = 2
    JobBuffer = 1
    MaxGen = 0
    InboxCap = 2
    ReportCap = 1
    MaxPauses = 1
    MaxAborts = 1
    MayShutDown = TRUE
SPECIFICATION LocalSpec
INVARIANTS LocalTypeOK HeldTasksMove
CHECK_DEADLOCK FALSE
