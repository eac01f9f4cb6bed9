SPECIFICATION MCSpec
CONSTANTS
    r1 = r1
    r2 = r2
    k1 = k1
    k2 = k2
    s1 = s1
    s2 = s2
    w1 = w1
    w2 = w2
    NoRun = NoRun
    NoJob = NoJob
    Runs = {r1, r2}
    Keys = {k1}
    Sessions = {s1, s2}
    KeyOf <- SameKey
    SessionOf <- TwoSessions
    Writing = {r1, r2}
    Resumes = {m1}
    Workers = {w1}
    Users = {u1}
    UserOps = {"decide"}
    MaxAttempts = 2
    ScopeLimit = 1
    FaultKinds = {"worker", "api", "store"}
    MaxFaults = 2
    StallsPossible = FALSE
    t1 = t1
    t2 = t2
    Routes = {"RESEARCH", "WRITE_INTRODUCTION", "WRITE_CONCLUSION", "REVIEW"}
    Texts = {t1, t2}
    MaxSteps = 8
    MaxResearch = 3
    MaxReviews = 3
    MaxNoProgress = 2
    MaxInterrupts = 2
    NoDraft = NoDraft
    NoCheckpoint = NoCheckpoint
INVARIANTS OneRunPerKey ApprovalEarned WorkBounded ReplayAllowed
PROPERTIES RunsSettle FlowTerminates ImplementsContract
CHECK_DEADLOCK FALSE
