SPECIFICATION MCSpec
CONSTANTS
    Contents = {"s1", "s2"}
    MaxRevision = 10
    Sessions = {"a1"}
    Adapters = {"m1", "m2"}
    Candidates = {x, y}
    None = None
    Risk = "HIGH"
    MaxCalls = 2
    MaxContentChanges = 2
    FewRevisions = 5
    PolicyRevisions = 8
    Baselines <- MCBaselines
    Clauses <- MCClauses
    Signatures <- MCSignatures
    Participants = {p1, p2}
    NoClause = NoClause
    PolicyRetries = 2
    ReviewIds = {"r1", "r2"}
    FirstReview = "r1"
    PermittedChecks = {{"security"}}
    Launchers = {l1, l2}
    Pids = {q1}
    MaxPerDay = 1
    LastDay = 2
    Checks = {"security", "tests"}
    ReviewGrants <- MCReviewGrants
    Results <- MCResults
    Reviews <- MCReviews
    MaxReviewEdits = 2
    NoReview = NoReview
INVARIANT BoundToPredecessor
SYMMETRY Symmetry
CHECK_DEADLOCK FALSE

