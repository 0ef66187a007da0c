SPECIFICATION MCSpec
CONSTANTS
    Callers = {c1, c2}
    Tokens = {k1, k2}
    Instants = {t1, t2}
    Window = {t1}
    Writes = {w1}
    Deletes = {d1}
    Rollback = TRUE
    MaxRetries = 2
    MaxForeign = 1
    None = None
    First = c1
    OneToken = k1
    OneInstant = t1
INVARIANTS OutcomesSound
PROPERTIES AttemptResolves
CHECK_DEADLOCK FALSE
