\* One run, two prunes that race with each other, the wrapper and a login.
SPECIFICATION Spec
CONSTANTS
    Runs = {r1}
    Pruners = {p1, p2}
    Revokers = {}
    Margin = 1
    Lifetimes = {1, 2}
    MaxClock = 2
    MaxEpoch = 0
    MaxGen = 2
    PidReuse = TRUE
SYMMETRY PrunerSymmetry
INVARIANTS
    CompleteMeansReleased
    FailureReportsLeak
    PruneSuccessReclaims
PROPERTIES
    LifecycleForward
    ClaimOnlyAbandoned
