SPECIFICATION MCSpec
CONSTANTS
    j1 = j1
    j2 = j2
    w1 = w1
    w2 = w2
    c1 = c1
    tenantA = tenantA
    Jobs = {j1}
    Workers = {w1}
    Callers = {c1}
    Scopes = {tenantA}
    ScopeOf <- OneScope
    MaxAttempts = 2
    ScopeLimit = 1
    MaxResets = 0
    MaxCrashes = 1
    StallsPossible = FALSE
    NoWorker = NoWorker
    NoJob = NoJob
CHECK_DEADLOCK FALSE
PROPERTIES TerminalWritesFenced
