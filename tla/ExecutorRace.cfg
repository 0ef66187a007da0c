SPECIFICATION Spec
CONSTANTS
    Callers = {c1, c2}
    Tokens = {k1, k2}
    Instants = {t1}
    Window = {t1}
    Writes = {w1}
    Deletes = {}
    Rollback = TRUE
    MaxRetries = 2
    MaxForeign = 1
    None = None
INVARIANTS TypeOK AdapterAtMostOnce ExecutesUnderActiveSwitch ReturnedIsDurable
PROPERTIES ConcludedStaysClosed
SYMMETRY Symmetry
CHECK_DEADLOCK FALSE
