CONSTANTS
  p1 = p1
  p2 = p2
  s1 = s1
  s2 = s2
  NONE = NONE
  Papers = {p1, p2}
  Syncs = {s1, s2}
  MaxEdits = 3
  MaxFaults = 2
  MaxOverlapped = 1
  MaxZoned = 4
  MaxRaw = 2
  MaxParses = 2
  RawBlocks <- MCRawBlocks
  NativeTexts <- MCNativeTexts
  Pages = 2
  Missing <- MCMissing
  LatexRead <- MCLatexRead
  HtmlRead <- MCHtmlRead
  DocumentMinimum = 4
  PageMinimum = 1
  Blocks <- NestingBlocks
  MaxBlocks = 6
  Maximum = 4
  Minimum = 3
  Overlap = 2
  Window = 23
  LongText = 3
SPECIFICATION MCSpec
SYMMETRY Symmetry
INVARIANTS NoStaleText CompletedIsSearchable  NothingLost ChunksCoherent
 
CHECK_DEADLOCK FALSE
