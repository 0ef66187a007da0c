CONSTANTS
    Tx = {g, t1, t2}
    Genesis = g
    Rec = {r1}
    Body = {b1, b2}
    Fp = {f1, f2}
    Readers = {}
    TornAppends = FALSE
    None = none
    Corrupt = corrupt
SPECIFICATION FairSpec
CHECK_DEADLOCK FALSE
INVARIANTS
    LineageSound
    AckedStaysCommitted
    StoreReadable
PROPERTIES
    ImplementsRegister
    IntentCompletes
