SPECIFICATION MCSpec
CONSTANTS
    Kinds = {"MERGE", "EDIT"}
    HumanOnly = {"MERGE"}
    Places = {"main"}
    Members = {x, y}
    RuleUniverse <- MCRules
    ProhibitionUniverse <- MCProhibitions
    MaxRecords = 2
    MaxTime = 1
    MaxMoves = 1
    MinimumLevel = 1
    MaximumAge = 0
    Baseline <- MCBaseline
    Kernel = "kernel"
    Requesters = {x, y}
    Differences = {d1, d2}
    Instants = {0, 1}
    Observable <- MCObservable
    MaxObservations = 2
    LastRevision = 3
    ClosureRequests <- MCClosureRequests
    LastTarget = 2
    Operator <- MCOperator
    Boundaries <- MCBoundaries
    Looks <- MCLooks
    Policies <- MCPolicies
    LastState = 1
    LastObjective = 1
    MaxHeld = 3
    MaxChain = 6
SYMMETRY MCSymmetry
CHECK_DEADLOCK FALSE
INVARIANTS
    ReflowSound
    DerivationSound
PROPERTIES
    AuthoritySound
