---------------------------- MODULE KnowledgeBase ----------------------------
(***************************************************************************)
(* What becomes of a paper: a parse writes its document (Normalization),   *)
(* the document is read and cut into chunks (Chunking), and the chunks of  *)
(* all papers are synchronised with the indexes and the scope (Knowledge,  *)
(* where a document is the number of its revision).  The three share no    *)
(* state here; they stand side by side, each with what it promises.        *)
(***************************************************************************)
EXTENDS Knowledge, Sequences

\* The constants and variables of the other two; NONE is shared.
CONSTANTS
  RawBlocks, NativeTexts, Pages, Missing, LatexRead, HtmlRead, DocumentMinimum, PageMinimum,
  MaxRaw, MaxParses,
  Blocks, MaxBlocks, Maximum, Minimum, Overlap, Window, LongText

\* A text is made of sentences, they of words; build_chunks refuses a maximum below 50
\* tokens and a negative overlap, and the window that cuts a single word is not empty.
ASSUME DocumentAssumption ==
  /\ \A b \in Blocks :
       b.enabled \in BOOLEAN /\ b.text \in Seq(Seq(Nat))
  /\ Maximum \in Nat \ {0} /\ Window \in Nat \ {0} /\ Overlap \in Nat

\* What MinerU, the text layer and the workers may find: readable or with something wrong
\* with it, or nothing.  Pictures belong to figures, tables and formulas.
ASSUME ParsingAssumption ==
  LET WordsRead == [length : Nat, kind : {"sound", "control", "replaced", "garbled"}]
      FormulasRead == [kind : {"sound", "control", "replaced", "broken"}, risky : BOOLEAN]
  IN
  /\ Pages \in Nat /\ DocumentMinimum \in Nat /\ PageMinimum \in Nat
  /\ NONE \notin WordsRead /\ NONE \notin FormulasRead /\ NONE \notin HtmlRead
  /\ \A words \in NativeTexts : words = NONE \/ words \in WordsRead
  /\ \A latex \in LatexRead : latex \in FormulasRead
  /\ \A raw \in RawBlocks :
       /\ raw.source \in {"title", "paragraph", "equation_interline", "image", "table", "page_header"}
       /\ raw.words = NONE \/ raw.words \in WordsRead
       /\ raw.latex = NONE \/ raw.latex \in FormulasRead
       /\ raw.source \in {"title", "paragraph"} => raw.image = NONE

VARIABLES
  mineru, native, blocks, cache, host, stage, next, parses,
  zone, stack, sections, titled, page, enriched

Parsed == INSTANCE Normalization
Document == INSTANCE Chunking

-----------------------------------------------------------------------------
(* Properties                                                              *)

\* Nothing of a paper is lost on its way into the chunks: what can be read of it is in
\* the document (Normalization), and no part of a searchable block is lost or doubled
\* (Chunking).
NothingLost == Parsed!NothingLost /\ Document!NothingLost

\* Chunks, their contexts and overlaps respect sections, zones and limits (Chunking).
ChunksCoherent == Document!ChunksCoherent
=============================================================================
