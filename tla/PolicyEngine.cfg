CONSTANTS
    Payloads = {p, q}
    MaxVersions = 3
    MaxStack = 4
SPECIFICATION Spec
INVARIANTS
    OneActive
    JournalReplays
    RollbackUndoes
CHECK_DEADLOCK FALSE
