\* A web client that starts from a snapshot, a termctl that resumes with its
\* last sequence number, and a termctl on a tty that resizes the terminal.
SPECIFICATION AloneSpec
CONSTANTS
    WebClients = {w1}
    CtlClients = {k1}
    TtyClients = {t1}
    Sizes = {z1}
    InitSize = z1
    JournalMax = 2
    QueueMax = 2
    ProxyMax = 2
    MaxSeq = 3
    MaxAttach = 3
INVARIANTS
    TypeOK
    ViewIsPrefix
    JournalIsSuffix
    BoundedAndComplete
PROPERTY CatchesUp
CHECK_DEADLOCK FALSE
