CONSTANTS
    MaxNode = 2
    Simulated = {}
    Declared = {1}
    InitRoles <- DeclaredRoles
    Switchable = {}
    Faulty = {2}
    MaxJob = 0
    FirstTask <- Nothing
    TaskCount <- Nothing
    MaxTaskAttempts = 1
    AttemptMax = 1
    JobBuffer = 1
    MaxGen = 3
    MaxConn = 3
    InboxCap = 1
    ReportCap = 1
    Stable = {}
SPECIFICATION RemoteSpec
INVARIANT GenerationNamesConnection
PROPERTY LateDetachIsHarmless
