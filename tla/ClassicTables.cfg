CONSTANTS
    EmptyIsNull = TRUE
    Writers = {w1, w2}
    Serialized = TRUE
    Messages <- MCMessages
    MaxIdent = 2
SPECIFICATION Spec
INVARIANTS
    
    NoOrphans
    NoDuplicateKey
CHECK_DEADLOCK FALSE
