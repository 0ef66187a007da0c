SPECIFICATION Spec
CONSTANTS
    Key = {k1, k2, k3}
    Chain = {c1, c2}
    Body = {b1, b2}
    None = None
    Malformed = Malformed
    PowerLoss = FALSE
INVARIANTS TypeOK CacheBacked
PROPERTIES ImplementsChainRegister
SYMMETRY Symmetry
