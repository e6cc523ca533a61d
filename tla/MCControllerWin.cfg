CONSTANTS
    Sessions <- TwoSessions
    Retries = 2
    Proxies = {p1, p2}
    NotSet = NotSet
    Inherited <- SomeEnvironment
    Variables <- SomeVariables
SPECIFICATION Spec
INVARIANTS
    WinTypeOK
    PipeIsOfSession
    OnlyOwnPipes
    EnvAsSet
