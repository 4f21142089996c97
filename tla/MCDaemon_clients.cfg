SPECIFICATION DaemonSpec
CONSTANTS
    Parts = {"clients"}
    Devices = {"d"}
    Keys = {1, 2}
    Tickets = {"t"}
    MaxChallenge = 2
    MaxClock = 2
    MaxBoot = 1
    TicketTtl = 1
    ChallengeTtl = 2
    Skew = 1
    PerDevice = 1
    Chunks = {1, 2}
    FileSize = 5
    Owners = {"d", "e"}
    Links = {"c1", "c2"}
    OwnerOf <- OwnerOfLink
    Relayed = {"c2"}
    Shells = {"s"}
    Viewers = {"v"}
    MaxMeta = 1
    MaxDbFail = 1
    MaxReboot = 1
    MaxCommand = 2
    MaxFault = 1
    ExecOpenFile = {"runs", "busy"}
    NumTerms = 2
    Titles = {"x"}
    MaxStoreFail = 1
    MaxBoots = 2
    MaxRename = 1
    Daemons = {"p", "q"}
    MaxMeddle = 2
    Browsers = {"d", "e"}
    Endpoints = {1, 2}
    Unbuildable = {2}
    SignalMax = 2
    EventMax = 1
    MaxChange = 2
    MaxRequest = 2
    MaxStart = 2
    MaxUpload = 1
    GrantMax = 1
    MaxGrant = 2
    GitTimeout = 3
    OutputMax = 1
    Ctls = {"p", "q"}
    Hosts = {"A", "B"}
    Urls = {"relay", "direct"}
    Leads <- LeadsTo
    Folders <- StateFolders
    MaxDevice = 2
    MaxCtlRun = 2
    MaxCtlFault = 1
    MaxCrash = 1
INVARIANT OverIsReleased
CHECK_DEADLOCK FALSE
