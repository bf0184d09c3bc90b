CONSTANTS
    MaxNode = 2
    Simulated = {1}
    Declared = {2}
    InitRoles <- TwoNodeRoles
    Switchable = {}
    Faulty = {2}
    MaxJob = 2
    FirstTask <- MCFirstTask
    TaskCount <- MCTaskCount
    MaxTaskAttempts = 2
    AttemptMax = 2
    JobBuffer = 1
    MaxGen = 1
SPECIFICATION Spec
INVARIANTS TypeOK QueueExact CountersExact JobsSettled OneTaskPerNode AttemptsAccounted
PROPERTIES SettledForGood ImplementsJobService
