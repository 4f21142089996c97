\* One termctl client on a tty.
SPECIFICATION Spec
CONSTANTS
    WebClients = {}
    CtlClients = {}
    TtyClients = {t1}
    Sizes = {z1}
    InitSize = z1
    JournalMax = 2
    QueueMax = 2
    ProxyMax = 2
    MaxSeq = 3
    MaxAttach = 2
INVARIANT TtyViewIsPrefix
CHECK_DEADLOCK FALSE
