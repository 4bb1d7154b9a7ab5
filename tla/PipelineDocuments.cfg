SPECIFICATION Spec
CONSTANTS
    Requests = {"r1"}
    Users = {"u1"}
    Direct = {"direct"}
    Proxied = {"proxied"}
    Proxy = "proxy"
    Trackers = {"direct", "proxy"}
    Envs <- MCEnvs
    RequestsOf <- MCPagesAndUser
    TableSizes = {0, 1}
    DefaultLimit = 2
    DownloadLimit = 1
    Ttl = 1
    MaxTime = 0
INVARIANT
    AnswersAreAsDocumented
CHECK_DEADLOCK FALSE
