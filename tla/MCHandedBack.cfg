CONSTANTS
    MaxNode = 1
    Simulated = {}
    Declared = {}
    InitRoles <- OneNode
    Switchable = {}
    Faulty = {1}
    MaxJob = 1
    FirstTask <- OneTask
    TaskCount <- OneTask
    MaxTaskAttempts = 2
    AttemptMax = 2
    JobBuffer = 1
    MaxGen = 1
    MaxConn = 1
    InboxCap = 1
    ReportCap = 1
    Stable = {}
SPECIFICATION FairRemoteSpec
PROPERTY HandedBackIsReported
