CONSTANTS
    NoThread = NoThread
    Threads = {t1, t2}
    Allowed = {"early_exit", "tmp_fails"}
    Retries = 1
    Given = {"PORT"}
    MaxRead = 8
    Messages <- AllMessages
SPECIFICATION FairSpec
INVARIANTS
    CompleteBeforeConnect
    CaFileStays
    TmpDirRemoved
    SocketOfLiveClient
    NeverIsConnected
PROPERTIES
    ConnectGivesBack
