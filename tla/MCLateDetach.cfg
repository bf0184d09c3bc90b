CONSTANTS
    MaxNode = 1
    Simulated = {}
    Declared = {}
    InitRoles <- OneNode
    Switchable = {}
    Faulty = {}
    MaxJob = 1
    FirstTask <- OneTask
    TaskCount <- OneTask
    MaxTaskAttempts = 1
    AttemptMax = 1
    JobBuffer = 1
    MaxGen = 2
    MaxConn = 3
    InboxCap = 1
    ReportCap = 1
    Stable = {}
SPECIFICATION RemoteSpec
PROPERTY NoLateEviction
