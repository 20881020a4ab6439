SPECIFICATION ToolSpec
CONSTANTS
    search = search
    sandbox = sandbox
    free = free
    NoLimiter = NoLimiter
    Pools <- MCPools
    Calls <- MCCalls
    PoolOf <- MCPoolOf
    Sandbox <- MCSandbox
    Limited <- MCLimited
    RateLimit <- MCRateLimit
    NumWorkers <- MCNumWorkers
    MaxRetries = 2
    MaxDeaths = 2
CHECK_DEADLOCK FALSE
INVARIANTS
    TokensConserved
    FirstLimitRules
PROPERTIES
    EveryCallReturns
