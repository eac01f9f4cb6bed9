SPECIFICATION MCSpec
CONSTANTS
  p1 = p1  p2 = p2
  j1 = j1  j2 = j2  b1 = b1  c1 = c1  c2 = c2
  NONE = NONE  FAILED = FAILED
  Questions = Questions  Searches = Searches  Fulltexts = Fulltexts
  Decisions = Decisions  Retries = Retries  Legacy = Legacy
  Jobs = {j1, j2}  Batches = {b1}  Curators = {c1, c2}
  Papers = {p1, p2}  Garbled = {p2}  DoiOf <- OneDoi
  Threads = 2  MaxRestarts = 1  MaxFaults = 1
  Documents <- MCDocuments  Chunks <- MCChunks  DocumentOf <- MCDocumentOf  WorkOf <- MCWorkOf
  TextOf <- MCTextOf  AroundOf <- MCAroundOf  TokensOf <- MCTokensOf  FirstScope = {1, 3}
  Targets <- MCTargets  Shortlists <- MCShortlists  Admissions <- MCAdmissions
  Limit = 2  PaperLimit = 2  Candidates = 3  PerWork = 2  PerWorkSource = 20  PerDocument = 100
  RrfK = 60  Reranked = 65  EvidenceBudget = 100  MaxEvidence = 3  ContextBudget = 8
  HeaderTokens = 1  MinContent = 2  MaxEdits = 1
  Providers <- MCProviders  Answers <- MCAnswers  Limits = {1, 3, 4}  Years <- MCYears
  Sessions = {"s1", "s2"}  Urls = {"u1", "u2"}  Serves <- MCServes  Pdfs = {"pdf1", "pdf2"}
  Names = {"f"}  Downloads = {1, 2}  MaxEnds = 1
  Histories <- MCHistories  Outcomes = {"COMPLETED", "WAITING_USER"}  Olds <- MCOlds
  MaxAttempts <- OneAttempt  MaxCalls = 1
INVARIANTS
  MineruAlone
CHECK_DEADLOCK FALSE
