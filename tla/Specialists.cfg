SPECIFICATION MCSpec
CONSTANTS
    s1 = s1  s2 = s2  p1 = p1  f1 = f1
    d1 = d1  d2 = d2  d3 = d3  c1 = c1  c2 = c2  c3 = c3  c4 = c4
    w1 = w1  w2 = w2  q1 = q1  q2 = q2
    r1 = r1  e1 = e1  e2 = e2  e3 = e3  k1 = k1
    Searches = {s1, s2}
    Processes = {p1}
    ProcessOf <- OneProcess
    Keys = {f1}
    KeyOf <- OneFingerprint
    SearchMixes <- MCSearchMixes
    Docs = {d1, d2, d3}
    Chunks = {c1, c2, c3, c4}
    DocOf <- MCDocOf
    Edited = {d1}
    ScopeDocs = {d1, d2}
    PaperRanking <- MCPaperRanking
    ChunkRanking <- MCChunkRanking
    WebWorks = {w1, w2}
    WorkRanking <- MCWorkRanking
    TwinOf <- MCTwinOf
    Recent = {w1, w2}
    Texts = {w1, w2}
    MergedTexts = {}
    DatedDocs = {d1}
    Claims = {q1, q2}
    Supports <- MCSupports
    Counter = {c2}
    Conflicting <- MCConflicting
    MaxPapers = 3
    MaxSections = 2
    MaxEvidence = 3
    CoverageTarget = 2
    TTL = 1
    MaxTime = 1
    MaxCorpusEdits = 1
    MaxWebAttempts = 2
    NoEntry = NoEntry
    NoPack = NoPack
    Nobody = Nobody
    Requests = {r1}
    Mixes <- MCMixes
    Needs = 2
    PackChoices <- MCPackChoices
    Evidence = {e1, e2, e3}
    WorkOf <- MCWorkOf
    PaperOf <- MCPaperOf
    Unlocated = {}
    Stem <- MCStem
    Complete = {w1, w2}
    Contributions = {k1}
    Slips = {"none", "unsupported", "evidence", "key", "base"}
    IntroductionMinimum = 2
    MaxRevisionRounds = 1
    MaxParallelism = 2
    InitialBib <- MCInitialBib
    SavedStates <- MCSavedStates
    MaxEdits = 1
    MaxAttempts = 2
    Nothing = Nothing
CHECK_DEADLOCK FALSE
INVARIANTS EvidenceCurrent FreshnessHonest ClaimsBacked PapersCovered ApprovedIsGrounded
PROPERTY ProposalKept
