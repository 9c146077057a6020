SPECIFICATION Spec
CONSTANTS
    FailureThreshold = 2
    SuccessThreshold = 2
    RecoveryTimeout = 2
    NoFailure = NoFailure
    Proxy = {proxy, proxy_read}
    r1 = r1
    r2 = r2
    Request = {r1, r2}
SYMMETRY RequestSymmetry
INVARIANTS BreakerShape
PROPERTIES ImplementsContract IssueGuardsInterface
