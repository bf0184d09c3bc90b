CONSTANTS
    MaxNode = 2
    Simulated = {}
    Declared = {}
    InitRoles <- NoRoles
    Switchable = {}
    Faulty = {}
    MaxJob = 1
    FirstTask <- OneTask
    TaskCount <- OneTask
    MaxTaskAttempts = 2
    AttemptMax = 2
    JobBuffer = 1
    MaxGen = 2
    MaxConn = 2
    InboxCap = 1
    ReportCap = 1
    Stable = {2}
SPECIFICATION FairRemoteSpec
INVARIANT RemoteTypeOK
PROPERTY JobsSettle
