CONSTANTS
    Holders = {h1}
    Numbers <- SomeNumbers
SPECIFICATION Spec
INVARIANT
    PortsAreValidated
