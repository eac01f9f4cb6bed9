SPECIFICATION OneCallSpec
CONSTANTS
    r1 = r1
    r2 = r2
    k1 = k1
    k2 = k2
    s1 = s1
    s2 = s2
    w1 = w1
    w2 = w2
    NoRun = NoRun
    NoJob = NoJob
    Runs = {r1}
    Keys = {k1}
    Sessions = {s1}
    KeyOf <- OneKey
    SessionOf <- One
    Writing = {r1}
    Resumes = {m1}
    Workers = {w1, w2}
    Users = {u1}
    UserOps = {"cancel", "resume", "decide"}
    MaxAttempts = 2
    ScopeLimit = 1
    FaultKinds = {"worker"}
    MaxFaults = 1
    StallsPossible = FALSE
SYMMETRY WorkerSymmetry
INVARIANTS HumanGate RunningIsWatched
CHECK_DEADLOCK FALSE
