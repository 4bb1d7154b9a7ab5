SPECIFICATION Spec
CONSTANTS
    Requests = {"r1", "r2"}
    Users = {"u1"}
    Direct = {"direct"}
    Proxied = {"proxied"}
    Proxy = "proxy"
    Trackers = {"direct", "proxy"}
    Envs <- MCEnvs
    RequestsOf <- MCRequestsOf
    TableSizes = {1}
    DefaultLimit = 2
    DownloadLimit = 1
    Ttl = 1
    MaxTime = 1
INVARIANTS
    TypeOK
    ErrorIsReportedAndKept
    ListNeedsNamedAdmin
    HandlerHasItsUser
    AtMostLimitPerWindow
    RefusedForItsOwnRequests
PROPERTIES
    EveryRequestIsClosed
CHECK_DEADLOCK FALSE
