CONSTANTS
    Sessions <- TwoSessions
    Retries = 2
    Proxies = {p1}
    NotSet = NotSet
    Inherited <- SomeEnvironment
    Variables <- SomeVariables
SPECIFICATION Spec
INVARIANT
    NoPipeAfterFailure
