SPECIFICATION FairSpec
CONSTANTS
    FailureThreshold = 2
    SuccessThreshold = 1
    RecoveryTimeout = 1
    NoFailure = NoFailure
    Proxy = {proxy, proxy_read}
    r1 = r1
    r2 = r2
    Request = {r1}
PROPERTIES Recovers
