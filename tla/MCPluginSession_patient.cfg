CONSTANTS
    NoThread = NoThread
    Threads = {t1, t2}
    Allowed = {"spawn_fails", "leader"}
    Retries = 2
    Given = {"PORT"}
    MaxRead = 9
    Messages <- AllMessages
SPECIFICATION FairSpec
INVARIANTS
    TypeOK
    WatchTypeOK
    UnixTypeOK
    TrustFilesRemoved
    NoFreedLoop
    DisconnectReaches
    NotAbandoned
PROPERTIES
    ToldAfterStatus
    StoppedSessionEnds
    ExitIsReported
    EndIsTold
    UnixSpec
    WatchSpec
