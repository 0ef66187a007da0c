SPECIFICATION MCSpec
CONSTANTS
    Callers = {t1, t2}
    Seconds = {0, 80}
    Minutes = {0, 1}
    Ahead = 0
    MaxReports = 2
    Contents = {s1, s2}
    MaxRevision = 7
    MaxContentChanges = 1
    FewRevisions = 3
    MaxProjections = 2
    MaxEdits = 1
    Tokens = {t1, t2}
    Instants = {i1, i2}
    Payloads = {p1, p2, p3}
    Granted = {p1, p2}
    Nothing = Nothing
    Hosts = {"a", "b", "c"}
    AdmittedHosts = {"a", "b"}
    MaxRedirects = 2
    Addresses = {t1, t2, d3}
    SafeAddresses = {t1, t2}
    NoUrl = NoUrl
    Human = Human
    None = None
    NotExcluded = NotExcluded
    Selection = "selection"
    Grants <- MCGrants
    Declarations <- MCDeclarations
    Targets = {"e1"}
    Sources = {"o1"}
    ObservationRequests <- MCObservationRequests
    Canonical <- MCCanonical
    Policies <- MCPolicies
    EventLists <- MCEventLists
    Reproducers = {"alice"}
    Processes = {1, 2}
    SigningKeys = {"k1", "k2"}
    TrustAnchors <- MCAnchors
    Times = {5, 20}
    Never = Never
    MaxFiled = 6
SYMMETRY Symmetry
CHECK_DEADLOCK FALSE
INVARIANT ExactRetryAccepted
