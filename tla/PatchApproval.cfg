SPECIFICATION MCSpec
CONSTANTS
    p1 = p1
    p2 = p2
    q1 = q1
    q2 = q2
    e1 = e1
    v1 = v1
    Patches = {p1, p2}
    Requests = {q1, q2}
    Edits = {e1}
    Works = {v1}
    UserWorks = {v1}
    UserRemoves = FALSE
    FaultsPossible = TRUE
    MaxCrashes = 1
    Original = Original
    NoRequest = NoRequest
    NoPatch = NoPatch
CHECK_DEADLOCK FALSE
INVARIANTS AppliedExactlyOnce AppliedIsRecorded CitationsResolve
PROPERTIES PatchesSeeEachOther ApprovalConcludesOrRaised
