CONSTANTS
    Minors <- SomeMinors
    MaxLoads = 2
    Numbers <- SomeNumbers
    MaxWrites = 2
SPECIFICATION Spec
INVARIANTS
    SettingsTypeOK
    TableIsCurrent
    NoBadCall
    ReadBack
    EndToEnd
