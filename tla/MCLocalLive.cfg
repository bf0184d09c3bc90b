CONSTANTS
    MaxNode = 2
    Simulated = {1, 2}
    Declared = {}
    InitRoles <- TwoNodeRoles
    Switchable = {}
    Faulty = {2}
    MaxJob = 1
    FirstTask <- OneTask
    TaskCount <- OneTask
    MaxTaskAttempts = 2
    AttemptMax = 3
    JobBuffer = 1
    MaxGen = 0
    InboxCap = 2
    ReportCap = 1
    MaxPauses = 2
    MaxAborts = 0
    MayShutDown = FALSE
SPECIFICATION FairLocalSpec
PROPERTY JobsSettle
