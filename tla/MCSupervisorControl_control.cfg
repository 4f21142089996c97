\* A daemon that resumes, or crashes and is restarted; one request.
SPECIFICATION FairSpec
CONSTANTS
    Devices = {d1}
    MaxConn = 5
    MaxDaemon = 2
    MaxConnects = 1
    MaxAttempt = 2
    MaxResume = 2
    MaxOps = 1
INVARIANT AuthorityIsCoherent
PROPERTIES LeaseNeverGoesBack RequestsEnd
CHECK_DEADLOCK FALSE
