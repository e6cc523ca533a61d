CONSTANTS
    Names <- ButtonNames
    Spelling <- ButtonSpelling
    TrustStores = {}
    Alphabet <- MCAlphabet
    Invocations <- MCInvocations
    MaxText = 5
SPECIFICATION Spec
CHECK_DEADLOCK FALSE
INVARIANT ButtonsCall
