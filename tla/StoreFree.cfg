CONSTANTS
    Tx = {g, t1, t2}
    Genesis = g
    Rec = {r1}
    Body = {b1, b2}
    Fp = {f1}
    Readers = {p1}
    TornAppends = TRUE
    None = none
    Corrupt = corrupt
SPECIFICATION Spec
SYMMETRY Symmetry
CHECK_DEADLOCK FALSE
INVARIANTS
    TypeOK
    CommittedIsDurable
    LoadedIsCommitted
PROPERTIES
    CommittedViewMonotone
    ResolvedImmutable
