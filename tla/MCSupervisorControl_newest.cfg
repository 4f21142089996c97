\* A daemon restart during a resume.
SPECIFICATION Spec
CONSTANTS
    Devices = {d1}
    MaxConn = 6
    MaxDaemon = 2
    MaxConnects = 1
    MaxAttempt = 2
    MaxResume = 2
    MaxOps = 1
INVARIANT NewestOwns
CHECK_DEADLOCK FALSE
