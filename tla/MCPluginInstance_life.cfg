CONSTANTS
    Holders = {h1, h2}
    Numbers <- SomeNumbers
SPECIFICATION Spec
INVARIANTS
    InstanceTypeOK
    PeerLife
    SentAsAsked
