------------------------------ MODULE Chunking ------------------------------
(***************************************************************************)
(* From the blocks of a canonical document to its chunks.  build_structure *)
(* reads the blocks in page order and gives each a zone and a section;     *)
(* build_chunks packs the searchable ones, lets a small chunk of a parent  *)
(* section go into the chunk below it as a context, and repeats the end of *)
(* a chunk in the next one of its section.                                 *)
(*                                                                         *)
(* A text is a sequence of sentences, a sentence the sequence of its words *)
(* (a Chinese one is often a single word), a word the number of its        *)
(* tokens.  All sizes are counted word by word: the pair token_count adds  *)
(* where two Chinese words meet is left out.  Lists are paragraphs, tables *)
(* and algorithms equations; the relation between assets and texts, page   *)
(* ranges, fingerprints and citation metadata are left out.                *)
(***************************************************************************)
EXTENDS Naturals, Sequences, SequencesExt

CONSTANTS
  Blocks,          \* the blocks a document may be made of
  MaxBlocks,       \* bound on the blocks of a document
  Maximum,         \* maximum_tokens
  Minimum,         \* minimum_chunk_tokens
  Overlap,         \* overlap_tokens
  Window,          \* tokens in the character window that cuts a single word
  LongText,        \* tokens of a block that counts as substantive
  NONE

VARIABLES
  zone,            \* current_zone
  stack,           \* section_stack: [id, title, level, path]
  sections,        \* how many sections there are
  titled,          \* document_title_seen
  page,            \* of the last block
  enriched         \* the blocks with their zone and section

structureVars == <<zone, stack, sections, titled, page, enriched>>

SearchableZones == {"abstract", "main_body", "appendix"}

StructureInit ==
  /\ zone = "front_matter" /\ stack = <<>> /\ sections = 0
  /\ titled = FALSE /\ page = 1 /\ enriched = <<>>

Total(numbers) ==
  LET total[n \in 0..Len(numbers)] == IF n = 0 THEN 0 ELSE total[n - 1] + numbers[n]
  IN total[Len(numbers)]

Tokens(text) == Total([i \in DOMAIN text |-> Total(text[i])])

-----------------------------------------------------------------------------
(* build_structure                                                         *)

\* content_zone_for_heading: the words of some headings name a zone.
ZoneOfHeading(b) == IF b.zone # NONE THEN b.zone ELSE zone

\* The first title of raw level 1 is the document's; a caption taken for a title
\* (is_false_heading) opens nothing.
NamesDocument(b) == b.type = "title" /\ b.raw = 1 /\ ~titled
OpensSection(b) == b.type = "title" /\ ~NamesDocument(b) /\ b.title # NONE

\* Sections of the same or a deeper level end where a heading begins.
Stack(b) ==
  LET parents == SubSeq(stack, 1, Max({0} \cup {i \in DOMAIN stack : stack[i].level < b.level}))
      titles == [i \in DOMAIN parents |-> parents[i].title]
  IN Append(parents, [id |-> sections + 1, title |-> b.title, level |-> b.level,
                      path |-> Append(titles, b.title)])

\* _block_specific_zone: in the front matter a paragraph may be the abstract, by its
\* first word or because it is the abstract of the metadata.
BlockZone(b, current) ==
  IF current = "front_matter" /\ b.type = "paragraph" /\ b.abstract # NONE
    THEN "abstract" ELSE current

\* A document without headings enters its body on the second page.
EntersBody(b, current, on) ==
  /\ BlockZone(b, current) = "front_matter" /\ on > 1
  /\ Tokens(b.text) >= LongText \/ b.type = "equation"

Searchable(b, z) ==
  /\ b.type \notin {"page_metadata", "title"}
  /\ b.text # <<>> /\ b.enabled /\ z \in SearchableZones

\* One block of the loop of build_structure.
ReadBlock ==
  /\ Len(enriched) < MaxBlocks
  /\ \E b \in Blocks, on \in page..2 :
       LET opens == OpensSection(b)
           current == IF opens THEN ZoneOfHeading(b) ELSE zone
           enters == EntersBody(b, current, on)
           z == IF enters THEN "main_body" ELSE BlockZone(b, current)
           open == IF opens THEN Stack(b) ELSE stack
           section == IF open = <<>> THEN [id |-> NONE, path |-> <<>>] ELSE open[Len(open)]
       IN
       /\ zone # "front_matter" => on = page   \* the page matters nowhere else
       /\ titled' = (titled \/ NamesDocument(b))
       /\ sections' = IF opens THEN sections + 1 ELSE sections
       /\ stack' = open
       /\ zone' = IF enters \/ (z # current /\ b.abstract = "explicit") THEN z ELSE current
       /\ page' = on
       /\ enriched' = Append(enriched,
            [type |-> b.type, text |-> b.text, zone |-> z, section |-> section.id,
             path |-> section.path, searchable |-> Searchable(b, z)])

StructureSpec == StructureInit /\ [][ReadBlock]_structureVars

-----------------------------------------------------------------------------
(* build_chunks                                                            *)

Smaller(m, n) == IF m <= n THEN m ELSE n

\* A word alone is cut into windows of characters.
Windows(word) ==
  [i \in 1..((word + Window - 1) \div Window) |-> <<Smaller(Window, word - (i - 1) * Window)>>]

Closed(split) == IF split.current = <<>> THEN split.parts ELSE Append(split.parts, split.current)

\* mutant: the part before is left open.
AddWordAnyway(split, word) == [split EXCEPT !.current = Append(@, word)]

\* Words are packed up to the maximum; one beyond it is a part of its own.
AddWord(split, word) ==
  IF split.current # <<>> /\ Total(split.current) + word > Maximum
    THEN [parts |-> Append(split.parts, split.current), current |-> <<word>>]
  ELSE [split EXCEPT !.current = Append(@, word)]

PackedWords(sentence) ==
  LET packed[n \in 0..Len(sentence)] ==
        IF n = 0 THEN [parts |-> <<>>, current |-> <<>>] ELSE AddWord(packed[n - 1], sentence[n])
  IN Closed(packed[Len(sentence)])

\* A sentence beyond the maximum.
Cut(sentence) ==
  LET pieces == IF Len(sentence) = 1 THEN Windows(sentence[1]) ELSE PackedWords(sentence)
  IN [k \in DOMAIN pieces |-> <<pieces[k]>>]

\* _split_oversized_text: sentences are packed up to the maximum.
AddSentence(split, sentence) ==
  IF Total(sentence) > Maximum
    THEN [parts |-> Closed(split) \o Cut(sentence), current |-> <<>>]
  ELSE IF Tokens(split.current) + Total(sentence) > Maximum
    THEN [parts |-> Closed(split), current |-> <<sentence>>]
  ELSE [split EXCEPT !.current = Append(@, sentence)]

Split(text) ==
  LET split[n \in 0..Len(text)] ==
        IF n = 0 THEN [parts |-> <<>>, current |-> <<>>] ELSE AddSentence(split[n - 1], text[n])
  IN IF Tokens(text) <= Maximum THEN <<text>> ELSE Closed(split[Len(text)])

\* _block_units
Units(i) ==
  LET parts == Split(enriched[i].text) IN
  [k \in DOMAIN parts |->
     [block |-> i, part |-> k, type |-> enriched[i].type, text |-> parts[k]]]

Size(units) == Total([k \in DOMAIN units |-> Tokens(units[k].text)])

\* flush()
Flush(packing) ==
  IF packing.units = <<>> THEN packing
  ELSE [packing EXCEPT
          !.chunks = Append(@, [place |-> packing.place, units |-> packing.units,
                                parents |-> <<>>]),
          !.units = <<>>]

Place(i) == [section |-> enriched[i].section, path |-> enriched[i].path, zone |-> enriched[i].zone]

\* mutant: a change of the zone within a section goes unnoticed.
SectionBreak(place, i) == place.section # enriched[i].section

\* A chunk ends where the section or the zone changes.
Break(place, i) == place.section # enriched[i].section \/ place.zone # enriched[i].zone

AddUnit(packing, unit) ==
  LET full == packing.units # <<>> /\ Size(packing.units) + Tokens(unit.text) > Maximum
      open == IF full THEN [Flush(packing) EXCEPT !.place = Place(unit.block)] ELSE packing
  IN [open EXCEPT !.units = Append(@, unit)]

AddUnits(packing, units) ==
  LET packed[n \in 0..Len(units)] == IF n = 0 THEN packing ELSE AddUnit(packed[n - 1], units[n])
  IN packed[Len(units)]

AddBlock(packing, i) ==
  LET ended == IF Break(packing.place, i) THEN Flush(packing) ELSE packing
      open == IF ended.units = <<>> THEN [ended EXCEPT !.place = Place(i)] ELSE ended
  IN IF enriched[i].searchable THEN AddUnits(open, Units(i)) ELSE packing

NothingPacked ==
  [chunks |-> <<>>, units |-> <<>>, place |-> [section |-> NONE, path |-> <<>>, zone |-> NONE]]

Packed ==
  LET packed[i \in 0..Len(enriched)] ==
        IF i = 0 THEN NothingPacked ELSE AddBlock(packed[i - 1], i)
  IN Flush(packed[Len(enriched)]).chunks

-----------------------------------------------------------------------------
(* Parent contexts and overlaps                                            *)

TextOnly(units) == \A k \in DOMAIN units : units[k].type = "paragraph"

\* _can_absorb_parent_chunk: a small chunk of text right above a chunk of one of its
\* subsections, in the same zone.
Absorbable(current, following) ==
  /\ TextOnly(current.units) /\ Size(current.units) < Minimum
  /\ current.place.section # NONE /\ current.place.zone = following.place.zone
  /\ IsStrictPrefix(current.place.path, following.place.path)

\* mutant: the contexts of the absorbed chunk are not handed on.
ContextAlone(current) == <<[place |-> current.place, units |-> current.units]>>

\* What the following chunk gets: the contexts of the absorbed one, and it.
Inherited(current) == Append(current.parents, [place |-> current.place, units |-> current.units])

\* One turn of the loop of _absorb_small_parent_chunks: after an absorption the chunk
\* before is looked at again.
AbsorbStep(scan) ==
  LET i == scan.index IN
  IF i + 1 > Len(scan.chunks) THEN scan
  ELSE LET current == scan.chunks[i]
           following == scan.chunks[i + 1]
       IN IF Absorbable(current, following)
            THEN [chunks |-> RemoveAt([scan.chunks EXCEPT ![i + 1].parents = Inherited(current)], i),
                  index |-> IF i > 1 THEN i - 1 ELSE i]
            ELSE [scan EXCEPT !.index = i + 1]

Absorbed(chunks) ==
  LET scan[turn \in 0..(2 * Len(chunks))] ==
        IF turn = 0 THEN [chunks |-> chunks, index |-> 1] ELSE AbsorbStep(scan[turn - 1])
  IN scan[2 * Len(chunks)].chunks

\* _tail_text_by_tokens: the last whole sentences within the limit; else the words up to
\* the last one that fits; else characters.
TailWithin(text, limit) ==
  LET words == FlattenSeq(text)
      last == Max({0} \cup {e \in DOMAIN words : words[e] <= limit})
      Most(amounts) == Max({0} \cup (amounts \cap (1..limit)))
      sentences == Most({Tokens(SubSeq(text, k, Len(text))) : k \in DOMAIN text})
      run == Most({Total(SubSeq(words, k, last)) : k \in 1..last})
  IN IF sentences > 0 THEN sentences ELSE IF run > 0 THEN run ELSE limit

\* _overlap_context: texts of the chunk, from its end, until the limit is reached.
TakeOverlap(taken, unit) ==
  IF taken.left = 0 \/ unit.type # "paragraph" THEN taken
  ELSE LET tokens == TailWithin(unit.text, taken.left) IN
       [left |-> IF Tokens(unit.text) <= taken.left THEN taken.left - tokens ELSE 0,
        tokens |-> taken.tokens + tokens, blocks |-> taken.blocks \cup {unit.block}]

EndOf(units) ==
  LET taken[n \in 0..Len(units)] ==
        IF n = 0 THEN [left |-> Overlap, tokens |-> 0, blocks |-> {}]
        ELSE TakeOverlap(taken[n - 1], units[Len(units) + 1 - n])
  IN taken[Len(units)]

\* _attach_overlap_contexts: the chunk before is of the same section and zone.
Continues(chunks, i) ==
  /\ i > 1 /\ chunks[i].place.section # NONE
  /\ chunks[i].place.section = chunks[i - 1].place.section
  /\ chunks[i].place.zone = chunks[i - 1].place.zone

OverlapInto(chunks, i) ==
  IF ~Continues(chunks, i) THEN NONE
  ELSE LET taken == EndOf(chunks[i - 1].units) IN
       IF taken.tokens = 0 THEN NONE ELSE [tokens |-> taken.tokens, blocks |-> taken.blocks]

Chunks ==
  LET chunks == Absorbed(Packed) IN
  [i \in DOMAIN chunks |->
     [place |-> chunks[i].place, units |-> chunks[i].units, parents |-> chunks[i].parents,
      overlap |-> OverlapInto(chunks, i)]]

-----------------------------------------------------------------------------
(* Properties                                                              *)

\* Texts of a chunk: its own, and those of the parents it took in.
TextsOf(chunk) ==
  FlattenSeq(Append([k \in DOMAIN chunk.parents |-> chunk.parents[k].units], chunk.units))

\* No two sections have the same path.
PathsDistinct ==
  \A i, j \in DOMAIN enriched : enriched[i].path = enriched[j].path =>
    enriched[i].section = enriched[j].section

\* Each part of each searchable block is in the chunks once and in document order,
\* whatever was split, packed, absorbed and handed on (build_chunks), as long as no
\* heading is repeated on one path.  Two small chunks of one section above a subsection
\* would break it: they need a Minimum above half the Maximum.
NothingLost ==
  PathsDistinct =>
    LET chunks == Chunks IN
    FlattenSeq([i \in DOMAIN chunks |-> TextsOf(chunks[i])])
      = FlattenSeq([i \in DOMAIN enriched |-> IF enriched[i].searchable THEN Units(i) ELSE <<>>])

OneWord(text) == Len(text) = 1 /\ Len(text[1]) = 1

\* A chunk stays within one section and one zone, and within the maximum unless it is a
\* single word of a text (one no space divides, or a window of it); its contexts are
\* small texts of the sections above it in the same zone; its overlap ends the chunk
\* before it, within the limit (build_chunks).
ChunksCoherent ==
  LET chunks == Chunks IN
  \A i \in DOMAIN chunks :
    LET c == chunks[i] IN
    /\ \A k \in DOMAIN c.units : Place(c.units[k].block) = c.place
    /\ Size(c.units) > Maximum => Len(c.units) = 1 /\ OneWord(c.units[1].text)
    /\ \A k \in DOMAIN c.parents :
         LET parent == c.parents[k] IN
         /\ parent.place.zone = c.place.zone
         /\ IsStrictPrefix(parent.place.path, c.place.path)
         /\ Size(parent.units) < Minimum
    /\ c.overlap # NONE =>
         /\ c.overlap.tokens <= Overlap
         /\ c.overlap.blocks \subseteq {chunks[i-1].units[k].block : k \in DOMAIN chunks[i-1].units}
         /\ chunks[i-1].place = c.place
=============================================================================
