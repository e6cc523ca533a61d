CONSTANTS
    NoThread = NoThread
    Threads = {t1}
    Allowed = {"leader"}
    Retries = 2
    Messages = {m1}
    MaxRead = 1
SPECIFICATION UnixFairSpec
PROPERTIES
    StopsOnlyOnFailure
