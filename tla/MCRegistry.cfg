CONSTANTS
    MaxNode = 3
    Simulated = {1}
    Declared = {2}
    InitRoles <- MCInitRoles
    Switchable <- MCSwitchable
    Faulty = {1, 2, 3}
    MaxJob = 1
    FirstTask <- OneTask
    TaskCount <- OneTask
    MaxTaskAttempts = 1
    AttemptMax = 1
    JobBuffer = 1
    MaxGen = 1
SPECIFICATION Spec
INVARIANTS HeldByLiveNode LeadershipFresh
