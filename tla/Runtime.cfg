SPECIFICATION MCSpec
CONSTANTS
    Contents <- MCContents
    MaxRevision = 5
    MaxUnrelated = 1
    Committers = {c1, c2}
    Issued <- MCIssued
    NoId = NoId
    MaxRetries = 2
    Requests = {q1}
    GrantRequests <- MCGrantRequests
    MaxExecutions = 2
    Observers = {o1}
    Boundaries <- MCBoundaries
    RunGrants <- MCRunGrants
    Reports <- MCReports
    MaxClock = 3
    Operations = {p1, p2}
    Deadline = 1
    MaxPolls = 1
    MaxStaleness = 1
    MaxRuns = 2
    MaxCrashes = 1
SYMMETRY Symmetry
CHECK_DEADLOCK FALSE
INVARIANTS
    AdmissionSound
    FallbackSound
PROPERTIES
    ObservationSound
