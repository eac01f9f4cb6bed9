---------------------------- MODULE Normalization ----------------------------
(***************************************************************************)
(* What parse_paper makes of MinerU's output: the canonical blocks         *)
(* (build_canonical_document), paragraphs of native PDF text for pages     *)
(* MinerU took for pictures (augment_native_pdf_text), tables and formulas *)
(* read again from their images by PaddleOCR (recover_image_only_tables,   *)
(* recover_high_risk_formulas) and the gate to retrieval                   *)
(* (validate_canonical_document).  A paper is parsed again and again: the  *)
(* output of MinerU and the results of PaddleOCR are files and stay.       *)
(*                                                                         *)
(* Words are a length and what is wrong with them: "control" (a character  *)
(* that is removed), "replaced" (U+FFFD, what an undecodable byte became)  *)
(* or "garbled" (few letters).  LaTeX is "sound", "control", "replaced" or *)
(* "broken" (an unbalanced delimiter, environment or \left, a truncation), *)
(* and risky or not.  Boxes, page sizes and the reports are left out.      *)
(***************************************************************************)
EXTENDS Naturals, Sequences, FiniteSets, SequencesExt

CONSTANTS
  RawBlocks,       \* what MinerU may find on a page: [source, words, latex, html, image]
  NativeTexts,     \* the words PyMuPDF may read from a page, or NONE
  Pages,           \* how many pages the paper has
  Missing,         \* images that are named in the output and not there
  LatexRead,       \* what the formula worker may answer
  HtmlRead,        \* what the table worker may answer
  DocumentMinimum, \* NATIVE_TEXT_FALLBACK_MIN_CHARS
  PageMinimum,     \* NATIVE_TEXT_FALLBACK_PAGE_MIN_CHARS
  MaxRaw,          \* bound on the blocks of a paper
  MaxParses,       \* bound on parses of it
  NONE

VARIABLES
  mineru,          \* MinerU's blocks, each with its page
  native,          \* native[n]: the text layer of page n
  blocks,          \* document["blocks"]
  cache,           \* the JSON files of finished workers, by image (and LaTeX)
  host,            \* recovery is enabled and the PaddleOCR environment there
  stage,           \* of the parse under way
  next,            \* the block whose table comes next
  parses

parsingVars == <<mineru, native, blocks, cache, host, stage, next, parses>>

ParsingInit ==
  /\ mineru = <<>> /\ native = <<>> /\ blocks = <<>> /\ cache = <<>>
  /\ host = FALSE /\ stage = "idle" /\ next = 1 /\ parses = 0

TextTypes == {"title", "paragraph"}

-----------------------------------------------------------------------------
(* Parses.  The first one runs MinerU, later ones take what it left; one   *)
(* that is forced to run it again is as the first one of another paper.    *)

StartParse ==
  /\ stage \in {"idle", "written", "died"} /\ parses < MaxParses
  /\ IF parses = 0
       THEN /\ \E n \in 1..MaxRaw : \E raw \in [1..n -> RawBlocks], on \in [1..n -> 1..Pages] :
                 /\ \A i \in 2..n : on[i - 1] <= on[i]
                 /\ mineru' = [i \in 1..n |-> [raw |-> raw[i], page |-> on[i]]]
            /\ native' \in [1..Pages -> NativeTexts]
       ELSE UNCHANGED <<mineru, native>>
  /\ host' \in BOOLEAN
  /\ parses' = parses + 1 /\ stage' = "normalizing" /\ next' = 1 /\ blocks' = <<>>
  /\ UNCHANGED cache

-----------------------------------------------------------------------------
(* build_canonical_document                                                *)

SourceTypes ==
  [title |-> "title", paragraph |-> "paragraph", equation_interline |-> "equation",
   image |-> "figure", table |-> "table", page_header |-> "page_metadata"]

\* build_quality_state: what the structure of a block alone says.
StructuralIssues(raw) ==
  {issue \in {"missing_latex", "missing_equation_image", "table_html_empty",
              "missing_table_image", "empty_block"} :
     CASE issue = "missing_latex" -> raw.source = "equation_interline" /\ raw.latex = NONE
       [] issue = "missing_equation_image" -> raw.source = "equation_interline" /\ raw.image = NONE
       [] issue = "table_html_empty" -> raw.source = "table" /\ raw.html = NONE
       [] issue = "missing_table_image" -> raw.source = "table" /\ raw.image = NONE
       [] issue = "empty_block" ->
            /\ raw.source \notin {"page_header", "equation_interline", "table"}
            /\ raw.words = NONE /\ raw.image = NONE}

\* extract_text: the words of a picture or a table are its caption, those of a formula
\* its LaTeX, which is kept apart.
Words(raw) == IF raw.source = "equation_interline" THEN NONE ELSE raw.words

\* convert_block
Convert(i) ==
  LET raw == mineru[i].raw
      earlier == {j \in 1..(i - 1) : mineru[j].page = mineru[i].page}
  IN [page |-> mineru[i].page, order |-> Cardinality(earlier), type |-> SourceTypes[raw.source],
      words |-> Words(raw), latex |-> raw.latex, latex_raw |-> raw.latex,
      html |-> raw.html, image |-> raw.image, issues |-> StructuralIssues(raw),
      enabled |-> raw.source # "page_header" /\ "empty_block" \notin StructuralIssues(raw)]

BuildDocument ==
  /\ stage = "normalizing"
  /\ blocks' = [i \in DOMAIN mineru |-> Convert(i)]
  /\ stage' = "augmenting"
  /\ UNCHANGED <<mineru, native, cache, host, next, parses>>

-----------------------------------------------------------------------------
(* augment_native_pdf_text                                                 *)

Length(words) == IF words = NONE THEN 0 ELSE words.length

Total(numbers) ==
  LET total[n \in 0..Len(numbers)] == IF n = 0 THEN 0 ELSE total[n - 1] + numbers[n]
  IN total[Len(numbers)]

\* The text MinerU found on page n, and what the text layer has there.
TextOn(n, b) == IF b.page = n /\ b.type \in TextTypes THEN Length(b.words) ELSE 0
Extracted(n) == Total([i \in DOMAIN blocks |-> TextOn(n, blocks[i])])
InLayer(n) == Length(native[n])
InPaper == Total([n \in 1..Pages |-> InLayer(n)])
ExtractedInPaper == Total([n \in 1..Pages |-> Extracted(n)])

\* The text layer has more than half as much again, and more than a minimum.
Exceeds(layer, extracted, minimum) == layer > minimum /\ 2 * layer > 3 * extracted

FallsBack(n) ==
  /\ Exceeds(InPaper, ExtractedInPaper, DocumentMinimum)
  /\ Exceeds(InLayer(n), Extracted(n), PageMinimum)

OrdersOn(n) == {b.order : b \in {c \in Range(blocks) : c.page = n}}

\* mutant: the block takes the place of the last one of its page.
TakenOrder(n) == IF OrdersOn(n) = {} THEN 0 ELSE Max(OrdersOn(n))

\* One past the last block of the page.
FreeOrder(n) == IF OrdersOn(n) = {} THEN 0 ELSE Max(OrdersOn(n)) + 1

NativeBlock(n) ==
  [page |-> n, order |-> FreeOrder(n), type |-> "paragraph", words |-> native[n],
   latex |-> NONE, latex_raw |-> NONE, html |-> NONE, image |-> NONE,
   issues |-> {"mineru_text_coverage_low"}, enabled |-> TRUE]

AugmentNativeText ==
  /\ stage = "augmenting"
  /\ LET augmented[n \in 0..Pages] ==
           IF n = 0 THEN blocks
           ELSE IF FallsBack(n) THEN Append(augmented[n - 1], NativeBlock(n))
           ELSE augmented[n - 1]
     IN blocks' = augmented[Pages]
  /\ stage' = "tables"
  /\ UNCHANGED <<mineru, native, cache, host, next, parses>>

-----------------------------------------------------------------------------
(* recover_image_only_tables                                               *)

Found(key) == IF key \in DOMAIN cache THEN cache[key] ELSE NONE
Stored(results) == [key \in DOMAIN results \cup DOMAIN cache |->
                      IF key \in DOMAIN results THEN results[key] ELSE cache[key]]

TableKey(b) == <<"table", b.image>>
UnreadTable(b) == b.type = "table" /\ b.html # "cells" /\ b.image # NONE

WithTable(b) ==
  [b EXCEPT !.html = "cells", !.issues = @ \ {"table_html_empty"}, !.enabled = TRUE]

\* Only HTML with cells is taken; whatever fails leaves the block as it is.  A result
\* without cells is kept, and answers the next parse too.
RecoverTable ==
  /\ stage = "tables" /\ next <= Len(blocks)
  /\ LET b == blocks[next]
         tried == UnreadTable(b) /\ host /\ b.image \notin Missing
         Take(html) == blocks' = IF html = "cells" THEN [blocks EXCEPT ![next] = WithTable(b)]
                                 ELSE blocks
     IN IF ~tried THEN UNCHANGED <<blocks, cache>>
        ELSE IF Found(TableKey(b)) # NONE THEN Take(Found(TableKey(b))) /\ UNCHANGED cache
        ELSE \/ UNCHANGED <<blocks, cache>>                        \* the worker failed
             \/ \E html \in HtmlRead :
                  Take(html) /\ cache' = Stored([key \in {TableKey(b)} |-> html])
  /\ next' = next + 1
  /\ UNCHANGED <<mineru, native, host, stage, parses>>

TablesDone ==
  /\ stage = "tables" /\ next > Len(blocks)
  /\ stage' = "formulas"
  /\ UNCHANGED <<mineru, native, blocks, cache, host, next, parses>>

-----------------------------------------------------------------------------
(* recover_high_risk_formulas                                              *)

\* mutant: the LaTeX of MinerU is looked at, whatever was recovered.
RawLatex(b) == b.latex_raw

\* block.get("latex") or block.get("latex_raw")
Latex(b) == IF b.latex # NONE THEN b.latex ELSE b.latex_raw

\* formula_hard_error_issues, as the recovery and as the validation see it: the latter
\* after control characters were removed.
HardError(latex) == latex = NONE \/ latex.kind \in {"broken", "control"}

Doubtful(b) == b.type = "equation" /\ (HardError(Latex(b)) \/ Latex(b).risky)
Readable(b) == Doubtful(b) /\ b.image # NONE /\ b.image \notin Missing
FormulaKey(b) == <<"formula", b.image, Latex(b)>>

\* Without quality issues of a formula: they come from an earlier validation only.
WithFormula(b, latex) == [b EXCEPT !.latex = latex, !.enabled = TRUE]

\* One worker reads all images that have no result; it may die or be timed out after
\* any of them, or find nothing in one, and what it wrote until then counts.
RecoverFormulas ==
  /\ stage = "formulas"
  /\ IF ~host THEN UNCHANGED <<blocks, cache>>
     ELSE LET jobs == {FormulaKey(b) : b \in {c \in Range(blocks) : Readable(c)}} \ DOMAIN cache
          IN \E written \in SUBSET jobs : \E answer \in [written -> LatexRead] :
               /\ cache' = Stored(answer)
               /\ blocks' = [i \in DOMAIN blocks |->
                    LET b == blocks[i] IN
                    IF Readable(b) /\ FormulaKey(b) \in DOMAIN cache'
                      THEN WithFormula(b, cache'[FormulaKey(b)]) ELSE b]
  /\ stage' = "validating"
  /\ UNCHANGED <<mineru, native, host, next, parses>>

-----------------------------------------------------------------------------
(* validate_canonical_document                                             *)

Clean(value) == IF value # NONE /\ value.kind = "control" THEN [value EXCEPT !.kind = "sound"] ELSE value
Sanitized(b) ==
  [b EXCEPT !.words = Clean(@), !.latex = Clean(@), !.latex_raw = Clean(@)]

Kinds(b) == {value.kind : value \in {b.words, b.latex, b.latex_raw} \ {NONE}}

\* Control (and formatting) characters are recorded, and removed before anything is
\* judged.  What is wrong with a formula is one issue here, whichever it is.
Findings(b) ==
  LET clean == Sanitized(b) IN
  {issue \in {"control_character", "replacement_character", "text_character_coverage_low",
              "formula", "empty_figure", "empty_table"} :
     CASE issue = "control_character" -> "control" \in Kinds(b)
       [] issue = "replacement_character" -> "replaced" \in Kinds(b)
       [] issue = "text_character_coverage_low" ->
            b.type \in TextTypes /\ clean.words # NONE /\ clean.words.kind = "garbled"
       [] issue = "formula" -> b.type = "equation" /\ HardError(Latex(clean))
       [] issue = "empty_figure" -> b.type = "figure" /\ b.words = NONE
       [] issue = "empty_table" ->
            b.type = "table" /\ b.words = NONE /\ b.html = NONE /\ b.image = NONE}

Validate(b) ==
  [Sanitized(b) EXCEPT
     !.issues = @ \cup Findings(b),
     !.enabled = @ /\ Findings(b) \subseteq {"control_character"}]

ValidateDocument ==
  /\ stage = "validating"
  /\ blocks' = [i \in DOMAIN blocks |-> Validate(blocks[i])]
  /\ stage' = "written"
  /\ UNCHANGED <<mineru, native, cache, host, next, parses>>

\* The process dies; the files of the workers that had ended stay.
ParseDies ==
  /\ stage \in {"augmenting", "tables", "formulas", "validating"}
  /\ stage' = "died" /\ blocks' = <<>> /\ next' = 1
  /\ UNCHANGED <<mineru, native, cache, host, parses>>

ParsingNext ==
  \/ StartParse \/ BuildDocument \/ AugmentNativeText
  \/ RecoverTable \/ TablesDone \/ RecoverFormulas \/ ValidateDocument \/ ParseDies

ParsingSpec == ParsingInit /\ [][ParsingNext]_parsingVars

-----------------------------------------------------------------------------
(* Properties                                                              *)

\* render_block_content has something to put into a chunk.
Rendered(b) ==
  CASE b.type = "equation" -> b.latex # NONE
    [] b.type = "table" -> b.words # NONE \/ b.html # NONE
    [] OTHER -> b.words # NONE

\* A block is searchable exactly if there is something to find (or the image of a table)
\* and all of it can be read: neither furniture nor empty, no undecodable byte in it,
\* formulas well-formed, words that are words.
Legible(b) ==
  /\ b.type # "page_metadata"
  /\ Rendered(b) \/ (b.type = "table" /\ b.image # NONE)
  /\ Kinds(b) \cap {"control", "replaced"} = {}
  /\ b.type = "equation" => b.latex.kind = "sound"
  /\ b.type \in TextTypes /\ b.words # NONE => b.words.kind = "sound"

\* What a worker read and left on disk for the block.
Reading(b, i) ==
  IF b.type = "table" THEN Found(<<"table", b.image>>)
  ELSE Found(<<"formula", b.image, mineru[i].raw.latex>>)

\* Of two tables on one image, the second may be read after the first one failed.
Shared(i) == \E j \in DOMAIN mineru \ {i} : mineru[j].raw.image = mineru[i].raw.image

\* Nothing of the paper is lost between MinerU and the document a parse writes: blocks
\* have names of their own; pages MinerU took for pictures have their text; blocks are
\* searchable exactly if they can be read; with the environment there, a table without
\* cells or a formula that was not well-formed is replaced by whatever any parse, even
\* one that died, read from its image.
NothingLost ==
  stage = "written" =>
    /\ \A i, j \in DOMAIN blocks : i # j => <<blocks[i].page, blocks[i].order>> # <<blocks[j].page, blocks[j].order>>
    /\ \/ ~Exceeds(InPaper, ExtractedInPaper, DocumentMinimum)
       \/ \A n \in 1..Pages : ~Exceeds(InLayer(n), Extracted(n), PageMinimum)
    /\ \A i \in DOMAIN blocks : blocks[i].enabled <=> Legible(blocks[i])
    /\ host => \A i \in DOMAIN mineru :
         LET b == blocks[i]
             found == Reading(b, i)
         IN b.image \notin Missing /\ found # NONE /\ ~Shared(i) =>
              /\ b.type = "table" /\ found = "cells" => b.html = "cells"
              /\ b.type = "equation" /\ HardError(mineru[i].raw.latex) => b.latex = Clean(found)
=============================================================================
