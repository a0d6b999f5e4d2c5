SPECIFICATION Spec
CONSTANTS
    Handlers = {h1, h2}
    NoReq = NoReq
    Tokens = {t1}
    Hooks <- MCHooks
    Events <- MCEvents
    MaxRetries = 1
    Monitors = {m1}
    Paths <- MCPaths
    Refused <- MCRefused
    Flushes = {f1, f2}
    BatchSize = 2
    RawLimit = 1
    Sessions = {s1, s2}
    MaxKept = 1
    TokenLimit = 2
    Files = {f3, f4}
    Limits <- MCLimits
    Players = {p1}
    SessionTtl = 2
    ActiveTicks = 1
    Scenarios <- MCScenarios
SYMMETRY Symmetry
INVARIANTS
    ControlTypeOK
    StoresAgree
    MonitorExplained
    DeliveryExplained
    FlushExplained
    SessionsExplained
CHECK_DEADLOCK FALSE
