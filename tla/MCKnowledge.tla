---------------------------- MODULE MCKnowledge ----------------------------
(***************************************************************************)
(* Three small instances: in a behaviour either the files of two papers    *)
(* are synchronised (Knowledge), or one paper is parsed again and again    *)
(* (Normalization), or one document is read block by block and cut into    *)
(* chunks (Chunking).  Documents of the first kind nest three levels of    *)
(* sections, those of the second kind change their zone.                   *)
(***************************************************************************)
EXTENDS KnowledgeBase, TLC

CONSTANTS p1, p2, s1, s2, MaxZoned, MaxOverlapped

\* Nothing names a paper or a synchronisation.
Symmetry == Permutations(Papers) \cup Permutations(Syncs)

parsingVars == <<mineru, native, blocks, cache, host, stage, next, parses>>
structureVars == <<zone, stack, sections, titled, page, enriched>>

VARIABLE about     \* "papers", "parses", "nesting" or "zones"

\* Short words; a sentence may also hold words beyond the maximum.
Sentence(words) == [w \in 1..words |-> 1]

Block(type, text) ==
  [type |-> type, text |-> text, raw |-> 2, title |-> NONE, level |-> 2, zone |-> NONE,
   abstract |-> NONE, enabled |-> TRUE]
Heading(title, level, z) == [Block("title", <<>>) EXCEPT !.title = title, !.level = level, !.zone = z]
Small == Block("paragraph", <<Sentence(1)>>)
Abstract(how) == [Block("paragraph", <<Sentence(1), Sentence(2)>>) EXCEPT !.abstract = how]

NestingBlocks ==
  {Heading("introduction", 1, "main_body"), Heading("model", 2, NONE), Heading("noise", 3, NONE),
   Small, Block("paragraph", <<Sentence(2), Sentence(3)>>), Block("equation", <<Sentence(1)>>)}

ZoneBlocks ==
  {[Heading("thesis", 2, NONE) EXCEPT !.raw = 1], Heading("introduction", 1, "main_body"),
   Heading("appendix", 1, "appendix"), Heading("references", 1, "references"),
   Block("title", <<Sentence(3)>>),
   Abstract("explicit"), Abstract("metadata"), Small,
   Block("paragraph", <<Sentence(3), <<1, 2, 6, 3, 3>>>>), Block("paragraph", <<<<30>>>>),
   Block("equation", <<Sentence(1)>>), Block("figure", <<>>),
   [Small EXCEPT !.enabled = FALSE], Block("page_metadata", <<Sentence(3)>>)}

Zones == INSTANCE Chunking WITH Blocks <- ZoneBlocks, MaxBlocks <- MaxZoned

Words(length, kind) == [length |-> length, kind |-> kind]
Formula(kind, risky) == [kind |-> kind, risky |-> risky]
Raw(source, words, latex, html, image) ==
  [source |-> source, words |-> words, latex |-> latex, html |-> html, image |-> image]

Texts ==
  {Raw("paragraph", words, NONE, NONE, NONE) :
     words \in {NONE, Words(1, "sound"), Words(3, "garbled"), Words(6, "control")}}
Tables ==
  {Raw("table", NONE, NONE, NONE, image) : image \in {NONE, "a", "gone"}}
Equations ==
  {Raw("equation_interline", NONE, latex, NONE, "a") :
     latex \in {NONE, Formula("sound", FALSE), Formula("sound", TRUE), Formula("broken", FALSE),
                Formula("replaced", TRUE), Formula("control", FALSE)}}
Others ==
  {Raw("title", Words(1, "replaced"), NONE, NONE, NONE), Raw("image", NONE, NONE, NONE, "a"),
   Raw("table", Words(1, "sound"), NONE, "cells", "a"),
   Raw("equation_interline", NONE, NONE, NONE, "b"),
   Raw("page_header", Words(1, "sound"), NONE, NONE, NONE)}

MCRawBlocks == Texts \cup Tables \cup Equations \cup Others
MCNativeTexts == {NONE, Words(2, "sound"), Words(6, "replaced")}
MCMissing == {"gone"}
MCLatexRead == {Formula("sound", TRUE), Formula("broken", TRUE)}
MCHtmlRead == {"cells", "blank"}

\* Overlapping synchronisations go on for a while: of what they may not break, the
\* scopes, a few edits and no fault show enough.
WithinOverlap == overlapped => edits <= MaxOverlapped /\ faults = 0

MCInit == about \in {"papers", "parses", "nesting", "zones"} /\ Init
          /\ Parsed!ParsingInit /\ Document!StructureInit

MCNext ==
  /\ UNCHANGED about
  /\ \/ about = "papers" /\ WithinOverlap /\ Next /\ UNCHANGED <<parsingVars, structureVars>>
     \/ about = "parses" /\ Parsed!ParsingNext /\ UNCHANGED <<vars, structureVars>>
     \/ about = "nesting" /\ Document!ReadBlock /\ UNCHANGED <<vars, parsingVars>>
     \/ about = "zones" /\ Zones!ReadBlock /\ UNCHANGED <<vars, parsingVars>>

MCSpec == MCInit /\ [][MCNext]_<<about, vars, parsingVars, structureVars>>
=============================================================================
