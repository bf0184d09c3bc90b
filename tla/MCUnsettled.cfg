CONSTANTS
    MaxNode = 1
    Simulated = {1}
    Declared = {}
    InitRoles <- MCInitRoles
    Switchable = {}
    Faulty = {1}
    MaxJob = 1
    FirstTask <- OneFirst
    TaskCount <- OneTask
    MaxTaskAttempts = 2
    AttemptMax = 2
    JobBuffer = 1
    MaxGen = 0
    QueueDepth = 3
    Page = 1
    MaxCrashes = 1
SPECIFICATION RecoverySpec
INVARIANT SettledOnceTasksAre
