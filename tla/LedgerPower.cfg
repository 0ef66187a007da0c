SPECIFICATION Spec
CONSTANTS
    Key = {k1, k2}
    Chain = {c1, c2}
    Body = {b1, b2}
    None = None
    Malformed = Malformed
    PowerLoss = TRUE

SYMMETRY Symmetry
INVARIANTS
    ChainLinear
