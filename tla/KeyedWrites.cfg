SPECIFICATION Spec
CONSTANTS
    Writes = {a, b, c}
    BulkRemoves = {c}
    Shared = Shared
    NoKey = NoKey
    MaxSends = 2
CHECK_DEADLOCK FALSE
INVARIANTS
    TypeOK
    KeyIsItsWrites
PROPERTIES
    ImplementsExactlyOnce
