\* A connection checked before, and acting after, a resume.
SPECIFICATION Spec
CONSTANTS
    Devices = {d1}
    MaxConn = 3
    MaxDaemon = 1
    MaxConnects = 1
    MaxAttempt = 2
    MaxResume = 1
    MaxOps = 2
INVARIANT DoneHolds
CHECK_DEADLOCK FALSE
