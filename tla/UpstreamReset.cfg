SPECIFICATION Spec
CONSTANTS
    r1 = r1
    Requests = {r1}
    Managed = {r1}
    Configs <- RetryConfigs
INVARIANTS
    UpstreamFailureCounted
