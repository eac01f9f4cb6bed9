CONSTANTS
  p1 = p1
  p2 = p2
  s1 = s1
  s2 = s2
  NONE = NONE
  Papers = {p1, p2}
  Syncs = {s1}
  MaxEdits = 3
  MaxFaults = 2
  MaxBlocks = 1
  MaxOverlapped = 1
  MaxZoned = 1
  MaxRaw = 1
  MaxParses = 1
  RawBlocks <- MCRawBlocks
  NativeTexts <- MCNativeTexts
  Pages = 2
  Missing <- MCMissing
  LatexRead <- MCLatexRead
  HtmlRead <- MCHtmlRead
  DocumentMinimum = 4
  PageMinimum = 1
  Blocks <- NestingBlocks
  Maximum = 4
  Minimum = 3
  Overlap = 2
  Window = 23
  LongText = 3
SPECIFICATION MCSpec
CHECK_DEADLOCK FALSE
INVARIANT PapersReachable
