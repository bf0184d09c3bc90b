CONSTANTS
    MaxNode = 1
    Simulated = {1}
    Declared = {}
    InitRoles <- MCInitRoles
    Switchable = {}
    Faulty = {1}
    MaxJob = 2
    FirstTask <- MCFirstTask
    TaskCount <- MCTaskCount
    MaxTaskAttempts = 1
    AttemptMax = 1
    JobBuffer = 1
    MaxGen = 0
    QueueDepth = 3
    Page = 1
    MaxCrashes = 2
SPECIFICATION RecoverySpec
INVARIANTS RecoveryTypeOK QueueExactAgain NeverOvercounted NoJobForgotten CleanRestartExact
