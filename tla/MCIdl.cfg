CONSTANTS
    Names <- MCNames
    Spelling <- MCSpelling
    TrustStores <- MCTrustStores
    Alphabet <- MCAlphabet
    Invocations <- MCInvocations
    MaxText = 8
SPECIFICATION Spec
CHECK_DEADLOCK FALSE
INVARIANTS
    RecordedAsWritten
    
    StreamsRestored
