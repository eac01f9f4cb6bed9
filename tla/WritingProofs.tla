---------------------------- MODULE WritingProofs ----------------------------
(* Proofs about Writing: an approved introduction is grounded in the research *)
(* of its own needs, it covers the papers it must, and a registered proposal  *)
(* is never replaced, for any requests, needs, packs, drafts, edits of the    *)
(* manuscript and the bibliography, and deaths of the Worker.                 *)
EXTENDS Writing, FiniteSetTheorems, SequenceTheorems, WellFoundedInduction, TLAPS

-----------------------------------------------------------------------------
(* Facts about numbers and sequences.                                         *)

LEMMA LeastNat ==
  ASSUME NEW T \in SUBSET Nat, T # {}
  PROVE  \E x \in T : \A y \in T : x <= y
<1>1. \E x \in T : \A y \in T : ~(<<y, x>> \in OpToRel(<, Nat))
  BY NatLessThanWellFounded, WFMin
<1>2. \A x, y \in Nat : <<y, x>> \in OpToRel(<, Nat) <=> y < x
  BY Zenon DEF OpToRel
<1>3. \E R : /\ \E x \in T : \A y \in T : ~(<<y, x>> \in R)
             /\ \A x, y \in Nat : <<y, x>> \in R <=> y < x
  BY <1>1, <1>2, Zenon
<1>4. PICK R : /\ \E x \in T : \A y \in T : ~(<<y, x>> \in R)
               /\ \A x, y \in Nat : <<y, x>> \in R <=> y < x
  BY <1>3
<1>5. PICK x \in T : \A y \in T : ~(<<y, x>> \in R)
  BY <1>4
<1>6. ASSUME NEW y \in T PROVE x <= y
  <2>1. ~(y < x)
    BY <1>4, <1>5
  <2>2. x \in Nat /\ y \in Nat
    OBVIOUS
  <2>. QED  BY <2>1, <2>2
<1>. QED  BY <1>6

\* Among the places of a sequence with some mark there is a last one.
LEMMA LastPlace ==
  ASSUME NEW n \in Nat, NEW at \in SUBSET (1..n), at # {}
  PROVE  \E i \in at : \A j \in at : j <= i
<1>. DEFINE bounds == {b \in Nat : \A j \in at : j <= b}
<1>1. bounds \in SUBSET Nat /\ n \in bounds
  OBVIOUS
<1>2. PICK b \in bounds : \A c \in bounds : b <= c
  BY <1>1, LeastNat
<1>3. b \in at
  <2>1. b # 0
    <3>1. PICK j \in at : j \in 1..n
      OBVIOUS
    <3>. QED  BY <1>2, <3>1
  <2>2. b - 1 \in Nat /\ b - 1 \notin bounds
    BY <1>2, <2>1
  <2>3. PICK j \in at : ~(j <= b - 1)
    BY <2>2
  <2>. QED  BY <1>2, <2>3
<1>. QED  BY <1>2, <1>3

\* A sequence that is one of its own members.
IsSeq(s) == s \in Seq(SetOf(s))

LEMMA AppendToSeq ==
  ASSUME NEW s, IsSeq(s), NEW x
  PROVE  /\ IsSeq(Append(s, x)) /\ DOMAIN Append(s, x) = 1..(Len(s) + 1)
         /\ \A i \in 1..Len(s) : Append(s, x)[i] = s[i]
         /\ Append(s, x)[Len(s) + 1] = x
         /\ SetOf(Append(s, x)) = SetOf(s) \cup {x}
         /\ DOMAIN s = 1..Len(s) /\ Len(s) \in Nat
<1>. DEFINE T == SetOf(s) \cup {x}
            a == Append(s, x)
<1>1. s \in Seq(T) /\ x \in T
  BY DEF IsSeq
<1>2. /\ a \in Seq(T) /\ Len(a) = Len(s) + 1
      /\ \A i \in 1..Len(s) : a[i] = s[i]
      /\ a[Len(s) + 1] = x
  BY <1>1, AppendProperties
<1>3. /\ Len(s) \in Nat /\ DOMAIN s = 1..Len(s)
      /\ DOMAIN a = 1..(Len(s) + 1)
  BY <1>1, <1>2, LenProperties
<1>. HIDE DEF a
<1>4. SetOf(a) = T
  <2>1. ASSUME NEW y \in SetOf(a) PROVE y \in T
    BY <1>2, <1>3 DEF SetOf
  <2>2. ASSUME NEW y \in SetOf(s) PROVE y \in SetOf(a)
    <3>1. PICK i \in 1..Len(s) : y = s[i]
      BY <1>3 DEF SetOf
    <3>2. i \in DOMAIN a /\ a[i] = y
      BY <1>2, <1>3, <3>1
    <3>. QED  BY <3>2 DEF SetOf
  <2>3. x \in SetOf(a)
    <3>1. Len(s) + 1 \in DOMAIN a
      BY <1>3
    <3>. QED  BY <1>2, <3>1 DEF SetOf
  <2>. QED  BY <2>1, <2>2, <2>3
<1>. QED  BY <1>2, <1>3, <1>4 DEF a, IsSeq

\* What the items of the first m needs, one after another, are.
Gathers(f, packs, m) ==
  f = [n \in 0..m |-> IF n = 0 THEN <<>> ELSE f[n - 1] \o packs[n].items]

LEMMA GatherExists ==
  ASSUME NEW packs
  PROVE  \A m \in Nat : \E f : Gathers(f, packs, m)
<1>. DEFINE Absent == {m \in Nat : ~\E f : Gathers(f, packs, m)}
<1>. SUFFICES ASSUME Absent # {} PROVE FALSE
  OBVIOUS
<1>1. PICK m \in Absent : \A k \in Absent : m <= k
  BY LeastNat
<1>. m \in Nat
  BY <1>1
<1>2. CASE m = 0
  <2>. DEFINE g == [n \in 0..0 |-> <<>>]
  <2>1. Gathers(g, packs, 0)
    BY DEF Gathers
  <2>. QED  BY <1>1, <1>2, <2>1
<1>3. CASE m # 0
  <2>1. m - 1 \in Nat /\ m - 1 \notin Absent
    BY <1>1, <1>3
  <2>2. PICK f : Gathers(f, packs, m - 1)
    BY <2>1
  <2>3. /\ DOMAIN f = 0..(m - 1)
        /\ \A n \in 0..(m - 1) : f[n] = IF n = 0 THEN <<>> ELSE f[n - 1] \o packs[n].items
    BY <2>2 DEF Gathers
  <2>. DEFINE g == [n \in 0..m |-> IF n = m THEN f[m - 1] \o packs[m].items ELSE f[n]]
  <2>4. \A n \in 0..m : g[n] = IF n = 0 THEN <<>> ELSE g[n - 1] \o packs[n].items
    <3>. TAKE n \in 0..m
    <3>1. CASE n = m
      <4>0. n - 1 \in 0..m /\ n - 1 # m /\ n # 0
        BY <1>3, <3>1
      <4>1. g[n] = f[m - 1] \o packs[m].items
        BY <3>1
      <4>2. g[n - 1] = f[n - 1]
        BY <4>0
      <4>. QED  BY <3>1, <4>0, <4>1, <4>2
    <3>2. CASE n # m
      <4>1. n \in 0..(m - 1) /\ g[n] = f[n]
        BY <3>2, <2>1
      <4>2. n # 0 => g[n - 1] = f[n - 1]
        BY <4>1, <2>1
      <4>. QED  BY <4>1, <4>2, <2>3
    <3>. QED  BY <3>1, <3>2
  <2>5. Gathers(g, packs, m)
    <3>. HIDE DEF g
    <3>1. g = [n \in 0..m |-> g[n]]
      BY DEF g
    <3>. QED  BY <2>4, <3>1 DEF Gathers
  <2>. QED  BY <1>1, <2>5
<1>. QED  BY <1>2, <1>3

LEMMA GatherIsSeq ==
  ASSUME NEW packs, NEW S, NEW m \in Nat, \A n \in 1..m : packs[n].items \in Seq(S),
         NEW f, Gathers(f, packs, m)
  PROVE  \A n \in 0..m : f[n] \in Seq(S)
<1>. DEFINE Bad == {n \in 0..m : f[n] \notin Seq(S)}
<1>. SUFFICES ASSUME Bad # {} PROVE FALSE
  OBVIOUS
<1>0. \A n \in 0..m : f[n] = IF n = 0 THEN <<>> ELSE f[n - 1] \o packs[n].items
  BY DEF Gathers
<1>1. PICK n \in Bad : \A k \in Bad : n <= k
  <2>1. Bad \in SUBSET Nat
    OBVIOUS
  <2>. HIDE DEF Bad
  <2>. QED  BY <2>1, LeastNat
<1>2. n # 0
  BY <1>0, <1>1, EmptySeq
<1>3. n \in 1..m /\ n - 1 \in 0..m /\ n - 1 \notin Bad
  BY <1>1, <1>2
<1>4. f[n - 1] \in Seq(S) /\ packs[n].items \in Seq(S) /\ f[n] = f[n - 1] \o packs[n].items
  BY <1>0, <1>1, <1>2, <1>3
<1>5. f[n - 1] \o packs[n].items \in Seq(S)
  BY <1>4, ConcatProperties
<1>. QED  BY <1>1, <1>4, <1>5

LEMMA AllItemsAreEvidence ==
  ASSUME WritingAssumption, NEW packs, \A n \in 1..Needs : packs[n].items \in Seq(Evidence)
  PROVE  AllItems(packs) \in Seq(Evidence)
<1>. DEFINE items == CHOOSE f : Gathers(f, packs, Needs)
<1>1. Needs \in Nat
  BY DEF WritingAssumption
<1>2. Gathers(items, packs, Needs)
  BY <1>1, GatherExists
<1>3. AllItems(packs) = items[Needs]
  BY DEF AllItems, Gathers
<1>. HIDE DEF items
<1>4. \A n \in 0..Needs : items[n] \in Seq(Evidence)
  BY <1>1, <1>2, GatherIsSeq
<1>. QED  BY <1>1, <1>3, <1>4

-----------------------------------------------------------------------------
(* The inductive invariant: what every place of a call knows of its packs,    *)
(* catalog, bindings and draft.                                               *)

CallFields ==
  {"pc", "prof", "previous", "state", "base", "current", "contribs", "finished", "packs",
   "queue", "catalog", "bindings", "changes", "bibAt", "draft", "round", "valid", "code"}

\* No need is researched twice, and a pack is one of its need's.
FinishedOK(s) ==
  /\ IsSeq(s)
  /\ \A i \in DOMAIN s : /\ s[i].need \in 1..Needs
                         /\ s[i].pack \in PackChoices[s[i].need] \cup {Nothing}
                         /\ \A j \in DOMAIN s : s[i].need = s[j].need => i = j

PacksOK(packs) == \A n \in DOMAIN packs : packs[n] \in PackChoices[n]

BindingsOK(s) == IsSeq(s) /\ \A i \in DOMAIN s : s[i].work \in Works

\* A draft that is about to be registered as valid passed the review with the
\* packs, the catalog and the bindings it is registered with, and has its papers.
DraftOK(c) ==
  Introduction(c.prof) =>
    /\ c.pc \in {"rescan", "register"} /\ c.valid => Review(c, c.draft)
    /\ c.pc = "register" => Sufficient(c, c.draft.keys)

CallOK(c) ==
  /\ DOMAIN c = CallFields
  /\ c.prof.minimum \in Nat
  /\ c.contribs \subseteq Contributions
  /\ FinishedOK(c.finished)
  /\ PacksOK(c.packs)
  /\ c.queue \in Seq(Evidence)
  /\ \A q \in c.catalog : q[2] \in Evidence
  /\ BindingsOK(c.bindings)
  /\ DraftOK(c)

CallsOK == DOMAIN call = Requests /\ \A r \in Requests : CallOK(call[r])

-----------------------------------------------------------------------------
(* One call's record.                                                         *)

LEMMA NothingOK ==
  ASSUME WritingAssumption
  PROVE  FinishedOK(<<>>) /\ PacksOK(<<>>) /\ BindingsOK(<<>>) /\ <<>> \in Seq(Evidence)
<1>1. DOMAIN <<>> = {}
  OBVIOUS
<1>2. IsSeq(<<>>)
  BY EmptySeq DEF IsSeq
<1>. QED  BY <1>1, <1>2, EmptySeq DEF FinishedOK, PacksOK, BindingsOK

LEMMA NewCallOK ==
  ASSUME WritingAssumption, NEW p, p.minimum \in Nat
  PROVE  CallOK(NewCall(p))
<1>. DEFINE c == NewCall(p)
<1>1. /\ DOMAIN c = CallFields /\ c.pc = "idle" /\ c.prof = p /\ c.contribs = {}
      /\ c.finished = <<>> /\ c.packs = <<>> /\ c.queue = <<>> /\ c.catalog = {}
      /\ c.bindings = <<>>
  BY DEF NewCall, CallFields
<1>. HIDE DEF c
<1>2. DraftOK(c)
  BY <1>1 DEF DraftOK
<1>. QED  BY <1>1, <1>2, NothingOK DEF CallOK, c

LEMMA EndedOK ==
  ASSUME WritingAssumption, NEW c, CallOK(c), NEW code, NEW previous, NEW state
  PROVE  CallOK([NewCall(c.prof) EXCEPT !.pc = "done", !.code = code, !.previous = previous,
                    !.state = state, !.packs = c.packs])
<1>. DEFINE d == [NewCall(c.prof) EXCEPT !.pc = "done", !.code = code, !.previous = previous,
                    !.state = state, !.packs = c.packs]
<1>1. /\ DOMAIN d = CallFields /\ d.pc = "done" /\ d.prof = c.prof /\ d.contribs = {}
      /\ d.finished = <<>> /\ d.packs = c.packs /\ d.queue = <<>> /\ d.catalog = {}
      /\ d.bindings = <<>>
  BY DEF NewCall, CallFields
<1>. HIDE DEF d
<1>2. DraftOK(d)
  BY <1>1 DEF DraftOK
<1>. QED  BY <1>1, <1>2, NothingOK DEF CallOK, d

\* Steps that change none of what a draft is reviewed with.
LEMMA MovedOK ==
  ASSUME NEW c, CallOK(c), NEW d, DOMAIN d = CallFields,
         \A f \in {"prof", "contribs", "finished", "packs", "queue", "catalog", "bindings"} :
            d[f] = c[f],
         DraftOK(d)
  PROVE  CallOK(d)
BY DEF CallOK

LEMMA OneCallMoves ==
  ASSUME CallsOK, NEW r \in Requests, NEW d, CallOK(d), Moves(r, d)
  PROVE  CallsOK'
BY DEF CallsOK, Moves

LEMMA OneCallEnds ==
  ASSUME WritingAssumption, CallsOK, NEW r \in Requests, NEW code, Ends(r, code)
  PROVE  CallsOK'
<1>1. CallOK(call[r])
  BY DEF CallsOK
<1>2. PICK c : c = call[r]
  OBVIOUS
<1>. QED  BY <1>1, <1>2, EndedOK, OneCallMoves DEF Ends

LEMMA OneCallGoes ==
  ASSUME CallsOK, NEW r \in Requests, NEW pc, pc \notin {"rescan", "register"}, Goes(r, pc)
  PROVE  CallsOK'
<1>1. PICK c : c = call[r]
  OBVIOUS
<1>. DEFINE d == [c EXCEPT !.pc = pc]
<1>2. CallOK(c) /\ DOMAIN c = CallFields
  BY <1>1 DEF CallsOK, CallOK
<1>3. /\ DOMAIN d = CallFields /\ d.pc = pc
      /\ \A f \in CallFields \ {"pc"} : d[f] = c[f]
  BY <1>2 DEF CallFields
<1>. HIDE DEF d
<1>4. DraftOK(d)
  BY <1>3 DEF DraftOK
<1>5. CallOK(d)
  BY <1>2, <1>3, <1>4, MovedOK DEF CallFields
<1>. QED  BY <1>1, <1>5, OneCallMoves DEF Goes, d

\* A review reads only the profile, the packs, the catalog, the bindings and the
\* contributions of a call.
LEMMA ReviewReads ==
  ASSUME NEW c, NEW d, NEW draft,
         d.prof = c.prof, d.packs = c.packs, d.catalog = c.catalog, d.bindings = c.bindings,
         d.contribs = c.contribs
  PROVE  /\ Review(d, draft) <=> Review(c, draft)
         /\ Sufficient(d, draft.keys) <=> Sufficient(c, draft.keys)
<1>1. Sufficient(d, draft.keys) <=> Sufficient(c, draft.keys)
  BY DEF Sufficient, Minimum
<1>2. \A n : ClaimGrounded(d, draft, n) <=> ClaimGrounded(c, draft, n)
  BY DEF ClaimGrounded
<1>3. \A k : WrongIdentity(d, k) <=> WrongIdentity(c, k)
  BY DEF WrongIdentity, BoundWork
<1>. QED  BY <1>1, <1>2, <1>3 DEF Review

-----------------------------------------------------------------------------
(* The steps of one call.                                                     *)

\* A place before the rescan says nothing of the draft.
LEMMA EarlyPlace ==
  ASSUME NEW d, d.pc \notin {"rescan", "register"}
  PROVE  DraftOK(d)
BY DEF DraftOK

LEMMA ContextOK ==
  ASSUME WritingAssumption, CallsOK, confirmed \subseteq Contributions, NEW r \in Requests,
         \/ Start(r) \/ CreateFile(r) \/ CreateSection(r) \/ ScanManuscript(r)
         \/ ReadSection(r) \/ ReadRegistry(r)
  PROVE  CallsOK'
<1>1. PICK c : c = call[r]
  OBVIOUS
<1>2. CallOK(c) /\ DOMAIN c = CallFields
  BY <1>1 DEF CallsOK, CallOK
<1>3. CASE Start(r)
  <2>1. CASE \E code : Ends(r, code)
    BY <2>1, OneCallEnds
  <2>2. CASE Goes(r, "research")
    BY <2>2, OneCallGoes
  <2>3. ASSUME NEW previous, Moves(r, [c EXCEPT !.pc = "init", !.previous = previous])
        PROVE  CallsOK'
    <3>. DEFINE d == [c EXCEPT !.pc = "init", !.previous = previous]
    <3>1. /\ DOMAIN d = CallFields /\ d.pc = "init"
          /\ \A f \in CallFields \ {"pc", "previous"} : d[f] = c[f]
      BY <1>2 DEF CallFields
    <3>. HIDE DEF d
    <3>2. CallOK(d)
      BY <1>2, <3>1, EarlyPlace, MovedOK DEF CallFields
    <3>. QED  BY <2>3, <3>2, OneCallMoves DEF d
  <2>. QED  BY <1>1, <1>3, <2>1, <2>2, <2>3 DEF Start
<1>4. CASE CreateFile(r)
  BY <1>4, OneCallGoes DEF CreateFile
<1>5. CASE CreateSection(r)
  <2>1. CASE Goes(r, "init")
    BY <2>1, OneCallGoes
  <2>2. CASE UNCHANGED call
    BY <2>2 DEF CallsOK
  <2>. QED  BY <1>5, <2>1, <2>2 DEF CreateSection
<1>6. CASE ScanManuscript(r)
  <2>1. CASE \E code : Ends(r, code)
    BY <2>1, OneCallEnds
  <2>2. ASSUME NEW state, NEW base,
               Moves(r, [c EXCEPT !.pc = "read", !.state = state, !.base = base])
        PROVE  CallsOK'
    <3>. DEFINE d == [c EXCEPT !.pc = "read", !.state = state, !.base = base]
    <3>1. /\ DOMAIN d = CallFields /\ d.pc = "read"
          /\ \A f \in CallFields \ {"pc", "state", "base"} : d[f] = c[f]
      BY <1>2 DEF CallFields
    <3>. HIDE DEF d
    <3>2. CallOK(d)
      BY <1>2, <3>1, EarlyPlace, MovedOK DEF CallFields
    <3>. QED  BY <2>2, <3>2, OneCallMoves DEF d
  <2>. QED  BY <1>1, <1>6, <2>1, <2>2 DEF ScanManuscript
<1>7. CASE ReadSection(r)
  <2>1. PICK text : Moves(r, [c EXCEPT !.pc = "registry", !.current = text])
    BY <1>1, <1>7 DEF ReadSection
  <2>. DEFINE d == [c EXCEPT !.pc = "registry", !.current = text]
  <2>2. /\ DOMAIN d = CallFields /\ d.pc = "registry"
        /\ \A f \in CallFields \ {"pc", "current"} : d[f] = c[f]
    BY <1>2 DEF CallFields
  <2>. HIDE DEF d
  <2>3. CallOK(d)
    BY <1>2, <2>2, EarlyPlace, MovedOK DEF CallFields
  <2>. QED  BY <2>1, <2>3, OneCallMoves DEF d
<1>8. CASE ReadRegistry(r)
  <2>1. CASE \E code : Ends(r, code)
    BY <2>1, OneCallEnds
  <2>2. ASSUME NEW pc \in {"draft", "research"}, NEW contribs \in SUBSET confirmed,
               Moves(r, [c EXCEPT !.pc = pc, !.contribs = contribs])
        PROVE  CallsOK'
    <3>. DEFINE d == [c EXCEPT !.pc = pc, !.contribs = contribs]
    <3>1. /\ DOMAIN d = CallFields /\ d.pc = pc /\ d.contribs = contribs
          /\ \A f \in CallFields \ {"pc", "contribs"} : d[f] = c[f]
      BY <1>2 DEF CallFields
    <3>. HIDE DEF d
    <3>2. DraftOK(d)
      BY <3>1, EarlyPlace
    <3>3. CallOK(d)
      BY <1>2, <3>1, <3>2 DEF CallOK, CallFields
    <3>. QED  BY <2>2, <3>3, OneCallMoves DEF d
  <2>. QED  BY <1>1, <1>8, <2>1, <2>2 DEF ReadRegistry
<1>. QED  BY <1>3, <1>4, <1>5, <1>6, <1>7, <1>8

\* Every need has its pack once as many needs as there are have finished: no
\* need is researched twice.
LEMMA EveryNeedFinished ==
  ASSUME WritingAssumption, NEW s, FinishedOK(s), Len(s) = Needs, NEW n \in 1..Needs
  PROVE  \E i \in DOMAIN s : s[i].need = n
<1>1. Needs \in Nat /\ DOMAIN s = 1..Needs
  BY LenProperties DEF WritingAssumption, FinishedOK, IsSeq
<1>. DEFINE f == [i \in 1..Needs |-> s[i].need]
<1>2. f \in Injection(1..Needs, 1..Needs)
  <2>1. f \in [1..Needs -> 1..Needs]
    BY <1>1 DEF FinishedOK
  <2>2. \A i, j \in 1..Needs : f[i] = f[j] => i = j
    BY <1>1 DEF FinishedOK
  <2>. HIDE DEF f
  <2>. QED  BY <2>1, <2>2 DEF Injection, IsInjective
<1>3. IsFiniteSet(1..Needs)
  BY <1>1, FS_Interval
<1>4. f \in Surjection(1..Needs, 1..Needs)
  BY <1>2, <1>3, FS_Injection
<1>5. PICK i \in 1..Needs : f[i] = n
  BY <1>4 DEF Surjection
<1>. QED  BY <1>1, <1>5

LEMMA PacksInOrder ==
  ASSUME WritingAssumption, NEW s, FinishedOK(s), Len(s) = Needs,
         ~\E f \in SetOf(s) : f.pack = Nothing
  PROVE  \A n \in 1..Needs : InNeedOrder(s)[n] \in PackChoices[n]
<1>. SUFFICES ASSUME NEW n \in 1..Needs PROVE InNeedOrder(s)[n] \in PackChoices[n]
  OBVIOUS
<1>1. \E f \in SetOf(s) : f.need = n
  <2>1. PICK i \in DOMAIN s : s[i].need = n
    BY EveryNeedFinished
  <2>. QED  BY <2>1 DEF SetOf
<1>2. PICK f : f = (CHOOSE x \in SetOf(s) : x.need = n)
  OBVIOUS
<1>3. f \in SetOf(s) /\ f.need = n
  BY <1>1, <1>2
<1>4. f.pack \in PackChoices[n]
  BY <1>3 DEF FinishedOK, SetOf
<1>. QED  BY <1>2, <1>4 DEF InNeedOrder

LEMMA ReceiveOK ==
  ASSUME WritingAssumption, CallsOK, NEW r \in Requests, NEW packs,
         DOMAIN packs = 1..Needs, \A n \in 1..Needs : packs[n] \in PackChoices[n],
         Receive(r, packs)
  PROVE  CallsOK'
<1>1. PICK c : c = call[r]
  OBVIOUS
<1>2. CallOK(c) /\ DOMAIN c = CallFields
  BY <1>1 DEF CallsOK, CallOK
<1>3. PICK queue : queue = AllItems(packs)
  OBVIOUS
<1>4. queue \in Seq(Evidence)
  BY <1>3, AllItemsAreEvidence DEF WritingAssumption
<1>. DEFINE d == [c EXCEPT !.pc = "resolve", !.packs = packs, !.finished = <<>>, !.queue = queue]
<1>5. /\ DOMAIN d = CallFields /\ d.pc = "resolve" /\ d.packs = packs /\ d.finished = <<>>
      /\ d.queue = queue
      /\ \A f \in CallFields \ {"pc", "packs", "finished", "queue"} : d[f] = c[f]
  BY <1>2 DEF CallFields
<1>6. Moves(r, d) \/ \E code : Ends(r, code)
  BY <1>1, <1>3 DEF Receive
<1>. HIDE DEF d
<1>7. PacksOK(packs)
  BY DEF PacksOK
<1>8. CallOK(d)
  BY <1>2, <1>4, <1>5, <1>7, EarlyPlace, NothingOK DEF CallOK, CallFields
<1>. QED  BY <1>6, <1>8, OneCallMoves, OneCallEnds

LEMMA FinishNeedOK ==
  ASSUME WritingAssumption, CallsOK, NEW r \in Requests, NEW n \in 1..Needs, FinishNeed(r, n)
  PROVE  CallsOK'
<1>1. PICK c : c = call[r]
  OBVIOUS
<1>2. CallOK(c) /\ DOMAIN c = CallFields
  BY <1>1 DEF CallsOK, CallOK
<1>3. PICK pack \in PackChoices[n] \cup {Nothing} :
         Moves(r, [c EXCEPT !.finished = Append(c.finished, [need |-> n, pack |-> pack])])
  BY <1>1 DEF FinishNeed
<1>. DEFINE f == [need |-> n, pack |-> pack]
            s == Append(c.finished, f)
            d == [c EXCEPT !.finished = s]
<1>4. FinishedOK(c.finished) /\ IsSeq(c.finished)
  BY <1>2 DEF CallOK, FinishedOK
<1>5. /\ IsSeq(s) /\ DOMAIN s = 1..(Len(c.finished) + 1) /\ DOMAIN c.finished = 1..Len(c.finished)
      /\ \A i \in 1..Len(c.finished) : s[i] = c.finished[i]
      /\ s[Len(c.finished) + 1] = f /\ Len(c.finished) \in Nat
  BY <1>4, AppendToSeq
<1>6. \A i \in 1..Len(c.finished) : c.finished[i].need # n
  BY <1>1, <1>5 DEF FinishNeed, SetOf
<1>7. FinishedOK(s)
  <2>. HIDE DEF s
  <2>1. \A i \in DOMAIN s : i \in 1..Len(c.finished) \/ i = Len(c.finished) + 1
    BY <1>5
  <2>2. f.need = n /\ f.pack = pack
    OBVIOUS
  <2>. HIDE DEF f
  <2>. QED  BY <1>3, <1>4, <1>5, <1>6, <2>1, <2>2 DEF FinishedOK
<1>8. /\ DOMAIN d = CallFields /\ d.finished = s
      /\ \A x \in CallFields \ {"finished"} : d[x] = c[x]
  BY <1>2 DEF CallFields
<1>9. Moves(r, d)
  BY <1>3
<1>. HIDE DEF d, s
<1>10. d.pc = "research"
  BY <1>1, <1>8 DEF FinishNeed, At, CallFields
<1>11. CallOK(d)
  BY <1>2, <1>7, <1>8, <1>10, EarlyPlace DEF CallOK, CallFields
<1>. QED  BY <1>9, <1>11, OneCallMoves

LEMMA ResearchStepsOK ==
  ASSUME WritingAssumption, CallsOK, NEW r \in Requests, CollectPacks(r) \/ Handoff(r)
  PROVE  CallsOK'
<1>1. CASE \E code : Ends(r, code)
  BY <1>1, OneCallEnds
<1>2. CASE CollectPacks(r) /\ ~\E code : Ends(r, code)
  <2>1. PICK s : s = call[r].finished
    OBVIOUS
  <2>2. FinishedOK(s) /\ Len(s) = Needs /\ Receive(r, InNeedOrder(s))
        /\ ~\E f \in SetOf(s) : f.pack = Nothing
    BY <1>2, <2>1 DEF CollectPacks, CallsOK, CallOK
  <2>3. \A n \in 1..Needs : InNeedOrder(s)[n] \in PackChoices[n]
    BY <2>2, PacksInOrder
  <2>4. PICK packs : packs = InNeedOrder(s)
    OBVIOUS
  <2>5. DOMAIN packs = 1..Needs
    BY <2>4 DEF InNeedOrder
  <2>. QED  BY <2>2, <2>3, <2>4, <2>5, ReceiveOK
<1>3. CASE Handoff(r) /\ ~\E code : Ends(r, code)
  <2>1. PICK packs \in [1..Needs -> UNION {PackChoices[n] : n \in 1..Needs}] :
           /\ \A n \in 1..Needs : packs[n] \in PackChoices[n]
           /\ Receive(r, packs)
    BY <1>3 DEF Handoff
  <2>. QED  BY <2>1, ReceiveOK
<1>. QED  BY <1>1, <1>2, <1>3

\* A resolve takes one evidence item from the queue into the catalog, and binds
\* its work once.
LEMMA ResolveOK ==
  ASSUME WritingAssumption, CallsOK, NEW r \in Requests, Resolve(r)
  PROVE  CallsOK'
<1>1. PICK c : c = call[r]
  OBVIOUS
<1>2. CallOK(c) /\ DOMAIN c = CallFields
  BY <1>1 DEF CallsOK, CallOK
<1>3. c.queue \in Seq(Evidence) /\ c.queue # <<>> /\ c.pc = "resolve"
  BY <1>1, <1>2 DEF CallOK, Resolve, At
<1>4. PICK e \in Evidence : e = Head(c.queue) /\ Tail(c.queue) \in Seq(Evidence)
  BY <1>3, HeadTailProperties
<1>5. PICK found : Moves(r, Resolved(c, e, found))
  BY <1>1, <1>4 DEF Resolve
<1>. DEFINE d == Resolved(c, e, found)
            catalog == d.catalog
            bindings == d.bindings
            b == [work |-> WorkOf[e], key |-> found.key]
<1>6. /\ DOMAIN d = CallFields /\ d.queue = Tail(c.queue)
      /\ catalog \in {c.catalog, c.catalog \cup {<<found.key, e>>}}
      /\ bindings \in {c.bindings, Append(c.bindings, b)}
      /\ \A f \in CallFields \ {"queue", "bibAt", "catalog", "bindings", "changes"} : d[f] = c[f]
  BY <1>2 DEF CallFields, Resolved
<1>. HIDE DEF d
<1>7. BindingsOK(c.bindings) /\ \A q \in c.catalog : q[2] \in Evidence
  BY <1>2 DEF CallOK
<1>8. \A q \in catalog : q[2] \in Evidence
  BY <1>7, <1>6
<1>9. BindingsOK(bindings)
  <2>1. b.work \in Works
    BY DEF Works
  <2>2. CASE bindings = Append(c.bindings, b)
    <3>1. IsSeq(c.bindings)
      BY <1>7 DEF BindingsOK
    <3>. HIDE DEF b
    <3>2. /\ IsSeq(bindings) /\ DOMAIN bindings = 1..(Len(c.bindings) + 1)
          /\ \A i \in 1..Len(c.bindings) : bindings[i] = c.bindings[i]
          /\ bindings[Len(c.bindings) + 1] = b
          /\ DOMAIN c.bindings = 1..Len(c.bindings) /\ Len(c.bindings) \in Nat
      BY <2>2, <3>1, AppendToSeq
    <3>3. \A i \in DOMAIN bindings : i \in 1..Len(c.bindings) \/ i = Len(c.bindings) + 1
      BY <3>2
    <3>. QED  BY <1>7, <2>1, <3>2, <3>3 DEF BindingsOK
  <2>. QED  BY <1>7, <1>6, <2>2
<1>10. d.pc = "resolve"
  BY <1>3, <1>6 DEF CallFields
<1>11. CallOK(d)
  BY <1>2, <1>4, <1>8, <1>9, <1>6, <1>10, EarlyPlace DEF CallOK, CallFields
<1>. QED  BY <1>5, <1>11, OneCallMoves DEF d

\* Synthesis drafts are reviewed otherwise, so an introduction that is valid
\* passed IntroductionReviewer.
LEMMA ReviewDraftOK ==
  ASSUME WritingAssumption, CallsOK, NEW r \in Requests, ReviewDraft(r)
  PROVE  CallsOK'
<1>1. PICK c : c = call[r]
  OBVIOUS
<1>2. CallOK(c) /\ DOMAIN c = CallFields
  BY <1>1 DEF CallsOK, CallOK
<1>3. PICK pc \in {"rescan", "revise"} : Moves(r, [c EXCEPT !.valid = Valid(c), !.pc = pc])
  BY <1>1 DEF ReviewDraft
<1>4. PICK valid : valid = Valid(c)
  OBVIOUS
<1>. DEFINE d == [c EXCEPT !.valid = valid, !.pc = pc]
<1>5. /\ DOMAIN d = CallFields /\ d.valid = valid /\ d.pc = pc
      /\ \A f \in CallFields \ {"valid", "pc"} : d[f] = c[f]
  BY <1>2 DEF CallFields
<1>. HIDE DEF d
<1>6. ASSUME Introduction(d.prof), d.valid PROVE Review(d, d.draft)
  <2>1. d.prof = c.prof /\ d.draft = c.draft
    BY <1>5 DEF CallFields
  <2>2. Review(c, c.draft)
    BY <1>4, <1>5, <1>6, <2>1 DEF Valid, Introduction, Synthesis
  <2>3. /\ d.packs = c.packs /\ d.catalog = c.catalog /\ d.bindings = c.bindings
        /\ d.contribs = c.contribs
    BY <1>5 DEF CallFields
  <2>. QED  BY <2>1, <2>2, <2>3, ReviewReads
<1>7. DraftOK(d)
  BY <1>3, <1>5, <1>6 DEF DraftOK
<1>8. CallOK(d)
  BY <1>2, <1>5, <1>7, MovedOK DEF CallFields
<1>. QED  BY <1>3, <1>4, <1>8, OneCallMoves DEF d

LEMMA DraftStepsOK ==
  ASSUME WritingAssumption, CallsOK, NEW r \in Requests,
         Generate(r) \/ Revise(r) \/ WriterFails(r) \/ CheckSources(r) \/ Judge(r)
  PROVE  CallsOK'
<1>1. PICK c : c = call[r]
  OBVIOUS
<1>2. CallOK(c) /\ DOMAIN c = CallFields
  BY <1>1 DEF CallsOK, CallOK
<1>3. CASE \E code : Ends(r, code)
  BY <1>3, OneCallEnds
<1>4. CASE Goes(r, "draft")
  BY <1>4, OneCallGoes
<1>5. ASSUME NEW draft, NEW round, Moves(r, [c EXCEPT !.pc = "review", !.draft = draft, !.round = round])
      PROVE  CallsOK'
  <2>. DEFINE d == [c EXCEPT !.pc = "review", !.draft = draft, !.round = round]
  <2>1. /\ DOMAIN d = CallFields /\ d.pc = "review"
        /\ \A f \in CallFields \ {"pc", "draft", "round"} : d[f] = c[f]
    BY <1>2 DEF CallFields
  <2>. HIDE DEF d
  <2>2. CallOK(d)
    BY <1>2, <2>1, EarlyPlace, MovedOK DEF CallFields
  <2>. QED  BY <1>5, <2>2, OneCallMoves DEF d
<1>6. ASSUME NEW draft, Moves(r, [c EXCEPT !.pc = "review", !.draft = draft])
      PROVE  CallsOK'
  <2>. DEFINE d == [c EXCEPT !.pc = "review", !.draft = draft]
  <2>1. /\ DOMAIN d = CallFields /\ d.pc = "review"
        /\ \A f \in CallFields \ {"pc", "draft"} : d[f] = c[f]
    BY <1>2 DEF CallFields
  <2>. HIDE DEF d
  <2>2. CallOK(d)
    BY <1>2, <2>1, EarlyPlace, MovedOK DEF CallFields
  <2>. QED  BY <1>6, <2>2, OneCallMoves DEF d
<1>7. CASE Generate(r)
  BY <1>1, <1>3, <1>6, <1>7 DEF Generate
<1>8. CASE Revise(r)
  BY <1>1, <1>3, <1>5, <1>8 DEF Revise
<1>9. CASE WriterFails(r) \/ Judge(r) \/ CheckSources(r)
  BY <1>3, <1>4, <1>9 DEF WriterFails, Judge, CheckSources
<1>. QED  BY <1>7, <1>8, <1>9

\* The papers are counted again before an introduction is registered.
LEMMA RescanOK ==
  ASSUME WritingAssumption, CallsOK, NEW r \in Requests, Rescan(r)
  PROVE  CallsOK'
<1>1. CASE \E code : Ends(r, code)
  BY <1>1, OneCallEnds
<1>2. CASE ~\E code : Ends(r, code)
  <2>1. PICK c : c = call[r]
    OBVIOUS
  <2>2. CallOK(c) /\ DOMAIN c = CallFields
    BY <2>1 DEF CallsOK, CallOK
  <2>3. /\ Moves(r, [c EXCEPT !.pc = "register"]) /\ c.pc = "rescan"
        /\ Introduction(c.prof) => Sufficient(c, c.draft.keys)
    BY <1>2, <2>1 DEF Rescan, Goes, At
  <2>. DEFINE d == [c EXCEPT !.pc = "register"]
  <2>4. /\ DOMAIN d = CallFields /\ d.pc = "register"
        /\ \A f \in CallFields \ {"pc"} : d[f] = c[f]
    BY <2>2 DEF CallFields
  <2>. HIDE DEF d
  <2>5. /\ d.packs = c.packs /\ d.catalog = c.catalog /\ d.bindings = c.bindings
        /\ d.contribs = c.contribs /\ d.prof = c.prof /\ d.draft = c.draft /\ d.valid = c.valid
    BY <2>4 DEF CallFields
  <2>6. Introduction(c.prof) /\ c.valid => Review(c, c.draft)
    BY <2>2, <2>3 DEF CallOK, DraftOK
  <2>7. DraftOK(d)
    BY <2>3, <2>4, <2>5, <2>6, ReviewReads DEF DraftOK
  <2>8. CallOK(d)
    BY <2>2, <2>4, <2>7, MovedOK DEF CallFields
  <2>. QED  BY <2>3, <2>8, OneCallMoves DEF d
<1>. QED  BY <1>1, <1>2

LEMMA LastStepsOK ==
  ASSUME WritingAssumption, CallsOK, NEW r \in Requests, Register(r) \/ Return(r) \/ Crash(r)
  PROVE  CallsOK'
<1>1. CASE \E code : Ends(r, code)
  BY <1>1, OneCallEnds
<1>2. CASE Goes(r, "registered")
  BY <1>2, OneCallGoes
<1>3. CASE Crash(r)
  <2>1. PICK p : p = call[r].prof
    OBVIOUS
  <2>2. CallOK(NewCall(p))
    BY <2>1, NewCallOK DEF CallsOK, CallOK
  <2>. QED  BY <1>3, <2>1, <2>2, OneCallMoves DEF Crash
<1>. QED  BY <1>1, <1>2, <1>3 DEF Register, Return

-----------------------------------------------------------------------------
CallInv == CallsOK /\ confirmed \subseteq Contributions /\ DOMAIN patches = Requests

LEMMA CallInitOK ==
  ASSUME WritingAssumption, Init
  PROVE  CallInv
<1>1. PICK mix \in Mixes : call = [r \in Requests |-> NewCall(mix[r])]
  BY DEF Init
<1>2. CallsOK
  BY <1>1, NewCallOK DEF CallsOK, WritingAssumption
<1>. QED  BY <1>2 DEF Init, CallInv

\* A step outside the requests leaves them and their patches alone.
LEMMA Surroundings ==
  ASSUME CallInv, \/ \E s \in Sections : EditSection(s)
                  \/ \E w \in Works : EditBib(w)
                  \/ \E k \in confirmed : Retract(k)
                  \/ UNCHANGED vars
  PROVE  UNCHANGED <<call, patches>> /\ confirmed' \subseteq Contributions
BY DEF EditSection, EditBib, Retract, vars, Store, Files, CallInv

\* What a step of a request does to the stores it shares.
LEMMA RequestSteps ==
  ASSUME CallInv, NEW r \in Requests,
         \/ Start(r) \/ CreateFile(r) \/ CreateSection(r) \/ ScanManuscript(r)
         \/ ReadSection(r) \/ ReadRegistry(r)
         \/ \E n \in 1..Needs : FinishNeed(r, n)
         \/ CollectPacks(r) \/ Handoff(r) \/ Resolve(r) \/ CheckSources(r) \/ Judge(r)
         \/ Generate(r) \/ ReviewDraft(r) \/ Revise(r) \/ WriterFails(r)
         \/ Rescan(r) \/ Register(r) \/ Return(r) \/ Crash(r)
  PROVE  UNCHANGED confirmed /\ (~Register(r) => UNCHANGED patches)
BY DEF Start, CreateFile, CreateSection, ScanManuscript, ReadSection, ReadRegistry, FinishNeed,
       CollectPacks, Handoff, Resolve, CheckSources, Judge, Generate, ReviewDraft, Revise,
       WriterFails, Rescan, Register, Return, Crash, OnlyCall, Store, Bounds, Files

LEMMA CallStepOK ==
  ASSUME WritingAssumption, CallInv, [Next]_vars
  PROVE  CallInv'
<1>1. CASE \/ \E s \in Sections : EditSection(s)
           \/ \E w \in Works : EditBib(w)
           \/ \E k \in confirmed : Retract(k)
           \/ UNCHANGED vars
  BY <1>1, Surroundings DEF CallInv, CallsOK
<1>2. ASSUME NEW r \in Requests,
             \/ Start(r) \/ CreateFile(r) \/ CreateSection(r) \/ ScanManuscript(r)
             \/ ReadSection(r) \/ ReadRegistry(r)
             \/ \E n \in 1..Needs : FinishNeed(r, n)
             \/ CollectPacks(r) \/ Handoff(r) \/ Resolve(r) \/ CheckSources(r) \/ Judge(r)
             \/ Generate(r) \/ ReviewDraft(r) \/ Revise(r) \/ WriterFails(r)
             \/ Rescan(r) \/ Register(r) \/ Return(r) \/ Crash(r)
      PROVE  CallInv'
  <2>1. CallsOK'
    BY <1>2, ContextOK, FinishNeedOK, ResearchStepsOK, ResolveOK, DraftStepsOK, ReviewDraftOK,
       RescanOK, LastStepsOK DEF CallInv
  <2>2. UNCHANGED confirmed /\ (~Register(r) => UNCHANGED patches)
    BY <1>2, RequestSteps
  <2>3. DOMAIN patches' = Requests
    BY <2>2 DEF CallInv, Register
  <2>. QED  BY <2>1, <2>2, <2>3 DEF CallInv
<1>. QED  BY <1>1, <1>2 DEF Next

-----------------------------------------------------------------------------
(* What is registered.                                                        *)

\* The reviewer finds the work of every key that has a binding.
LEMMA BoundWorkFound ==
  ASSUME WritingAssumption, NEW c, BindingsOK(c.bindings), NEW b \in SetOf(c.bindings)
  PROVE  BoundWork(c, b.key) # Nothing
<1>. DEFINE at == {i \in DOMAIN c.bindings : c.bindings[i].key = b.key}
<1>1. Len(c.bindings) \in Nat /\ DOMAIN c.bindings = 1..Len(c.bindings)
  BY LenProperties DEF BindingsOK, IsSeq
<1>2. at # {}
  BY DEF SetOf
<1>3. \E i \in at : \A j \in at : j <= i
  <2>1. at \in SUBSET (1..Len(c.bindings))
    BY <1>1
  <2>. HIDE DEF at
  <2>. QED  BY <1>1, <1>2, <2>1, LastPlace
<1>4. PICK i : i = CHOOSE x \in at : \A j \in at : j <= x
  OBVIOUS
<1>5. i \in at
  BY <1>3, <1>4
<1>6. BoundWork(c, b.key) = c.bindings[i].work
  BY <1>2, <1>4 DEF BoundWork
<1>7. c.bindings[i].work \in Works
  BY <1>5 DEF BindingsOK
<1>. QED  BY <1>6, <1>7 DEF Works, WritingAssumption

\* What ApprovedIsGrounded asks of one patch.
Grounded(p) ==
  p # Nothing /\ p.approved /\ p.task = "WRITE_INTRODUCTION" =>
    /\ \A n \in p.draft.claims :
          \E q \in p.catalog : q[1] \in p.draft.keys /\ q[2] \in Relevant(n)
    /\ \A k \in p.draft.keys \cap {b.key : b \in SetOf(p.bindings)} :
          Cardinality(WorksOfKey(p, k)) = 1
    /\ p.draft.contribs \subseteq Contributions

LEMMA RowIsGrounded ==
  ASSUME WritingAssumption, NEW c, CallOK(c), c.pc = "register"
  PROVE  Grounded(Row(c))
<1>. DEFINE p == Row(c)
<1>1. /\ p.task = c.prof.task /\ p.draft = c.draft /\ p.approved = c.valid
      /\ p.bindings = c.bindings /\ p.catalog = c.catalog
  BY DEF Row
<1>. HIDE DEF p
<1>. SUFFICES ASSUME p.approved, p.task = "WRITE_INTRODUCTION"
              PROVE  /\ \A n \in p.draft.claims :
                           \E q \in p.catalog : q[1] \in p.draft.keys /\ q[2] \in Relevant(n)
                     /\ \A k \in p.draft.keys \cap {b.key : b \in SetOf(p.bindings)} :
                           Cardinality(WorksOfKey(p, k)) = 1
                     /\ p.draft.contribs \subseteq Contributions
  BY DEF Grounded, p
<1>2. Review(c, c.draft)
  BY <1>1 DEF CallOK, DraftOK, Introduction
<1>3. ASSUME NEW n \in p.draft.claims
      PROVE  \E q \in p.catalog : q[1] \in p.draft.keys /\ q[2] \in Relevant(n)
  <2>1. n \in DOMAIN c.packs /\ ClaimGrounded(c, c.draft, n)
    BY <1>1, <1>2, <1>3 DEF Review
  <2>2. PICK q \in c.catalog : q[1] \in c.draft.keys /\ q[2] \in Plan(c.packs)[n]
    BY <2>1 DEF ClaimGrounded
  <2>3. Plan(c.packs)[n] = PlannedEvidence(c.packs[n])
    BY <2>1 DEF Plan
  <2>4. c.packs[n] \in PackChoices[n]
    BY <2>1 DEF CallOK, PacksOK
  <2>5. q[2] \in Relevant(n)
    BY <2>2, <2>3, <2>4 DEF Relevant
  <2>. QED  BY <1>1, <2>2, <2>5
<1>4. ASSUME NEW b \in SetOf(p.bindings), b.key \in p.draft.keys
      PROVE  Cardinality(WorksOfKey(p, b.key)) = 1
  <2>. DEFINE k == b.key
  <2>1. BoundWork(c, k) # Nothing
    BY <1>1, <1>4, BoundWorkFound DEF CallOK
  <2>2. k \in Catalogued(c.catalog) /\ ~WrongIdentity(c, k)
    BY <1>1, <1>2, <1>4 DEF Review
  <2>3. \A q \in c.catalog : q[1] = k => WorkOf[q[2]] = BoundWork(c, k)
    BY <2>1, <2>2 DEF WrongIdentity
  <2>4. \E q \in c.catalog : q[1] = k
    BY <2>2 DEF Catalogued
  <2>5. WorksOfKey(p, k) = {BoundWork(c, k)}
    BY <1>1, <2>3, <2>4 DEF WorksOfKey
  <2>. QED  BY <2>5, FS_Singleton
<1>5. p.draft.contribs \subseteq Contributions
  BY <1>1, <1>2 DEF Review, CallOK
<1>. QED  BY <1>3, <1>4, <1>5

\* Papers and citation identities name the same items.
SameIdentity == \A e, f \in Evidence : PaperOf[e] = PaperOf[f] <=> WorkOf[e] = WorkOf[f]

\* What PapersCovered asks of one patch.
SoleWorks(p) == {w \in Works : \E k \in p.draft.keys : WorksOfKey(p, k) = {w}}

Covered(p) ==
  p # Nothing /\ p.task = "WRITE_INTRODUCTION" /\ p.minimum > 0 =>
    Cardinality(SoleWorks(p)) >= IntroductionMinimum

LEMMA NamesAreFinite ==
  ASSUME WritingAssumption, NEW name
  PROVE  IsFiniteSet({name[e] : e \in Evidence})
<1>. DEFINE names == {name[e] : e \in Evidence}
            f == [e \in Evidence |-> name[e]]
<1>1. f \in [Evidence -> names] /\ \A n \in names : \E e \in Evidence : f[e] = n
  OBVIOUS
<1>. HIDE DEF names, f
<1>2. f \in Surjection(Evidence, names)
  BY <1>1 DEF Surjection
<1>. QED  BY <1>2, FS_Surjection DEF WritingAssumption, names

\* A key that counts as one paper stands for one work, and two papers counted
\* are two works.
LEMMA CoverageCountsWorks ==
  ASSUME WritingAssumption, SameIdentity, NEW p, \A q \in p.catalog : q[2] \in Evidence
  PROVE  /\ Cardinality(Coverage(p.catalog, p.draft.keys)) <= Cardinality(SoleWorks(p))
         /\ Cardinality(Coverage(p.catalog, p.draft.keys)) \in Nat
         /\ Cardinality(SoleWorks(p)) \in Nat
<1>. DEFINE covered == Coverage(p.catalog, p.draft.keys)
            Sole(k, x) == PapersOfKey(p.catalog, k) = {x}
<1>1. IsFiniteSet(Works)
  BY NamesAreFinite DEF Works
<1>2. IsFiniteSet(SoleWorks(p)) /\ Cardinality(SoleWorks(p)) \in Nat
  <2>1. SoleWorks(p) \in SUBSET Works
    BY DEF SoleWorks
  <2>. QED  BY <1>1, <2>1, FS_Subset, FS_CardinalityType
<1>3. ASSUME NEW x \in covered PROVE \E k \in p.draft.keys : PapersOfKey(p.catalog, k) = {x}
  <2>1. PICK k \in p.draft.keys : /\ Cardinality(PapersOfKey(p.catalog, k)) = 1
                                  /\ x \in PapersOfKey(p.catalog, k)
    BY <1>3 DEF Coverage
  <2>2. IsFiniteSet({PaperOf[e] : e \in Evidence})
    BY NamesAreFinite
  <2>3. PapersOfKey(p.catalog, k) \in SUBSET {PaperOf[e] : e \in Evidence}
    BY DEF PapersOfKey
  <2>4. IsFiniteSet(PapersOfKey(p.catalog, k))
    BY <2>2, <2>3, FS_Subset
  <2>. QED  BY <2>1, <2>4, FS_Singleton
<1>4. ASSUME NEW k, NEW x, PapersOfKey(p.catalog, k) = {x}
      PROVE  \E e \in Evidence : x = PaperOf[e] /\ WorksOfKey(p, k) = {WorkOf[e]}
  <2>1. PICK q \in p.catalog : q[1] = k /\ x = PaperOf[q[2]]
    BY <1>4 DEF PapersOfKey
  <2>2. \A s \in p.catalog : s[1] = k => PaperOf[s[2]] = x
    BY <1>4 DEF PapersOfKey
  <2>3. \A s \in p.catalog : s[1] = k => WorkOf[s[2]] = WorkOf[q[2]]
    BY <2>1, <2>2 DEF SameIdentity
  <2>4. WorksOfKey(p, k) = {WorkOf[q[2]]}
    BY <2>1, <2>3 DEF WorksOfKey
  <2>. QED  BY <2>1, <2>4
<1>5. \A x \in covered : \E w \in SoleWorks(p) : \E e \in Evidence : x = PaperOf[e] /\ w = WorkOf[e]
  <2>. TAKE x \in covered
  <2>1. PICK k \in p.draft.keys : PapersOfKey(p.catalog, k) = {x}
    BY <1>3
  <2>2. PICK e \in Evidence : x = PaperOf[e] /\ WorksOfKey(p, k) = {WorkOf[e]}
    BY <1>4, <2>1
  <2>3. WorkOf[e] \in SoleWorks(p)
    BY <2>2 DEF SoleWorks, Works
  <2>. QED  BY <2>2, <2>3
<1>. HIDE DEF covered
<1>. DEFINE f == [x \in covered |-> CHOOSE w \in SoleWorks(p) :
                                       \E e \in Evidence : x = PaperOf[e] /\ w = WorkOf[e]]
<1>6. \A x \in covered : /\ f[x] \in SoleWorks(p)
                         /\ \E e \in Evidence : x = PaperOf[e] /\ f[x] = WorkOf[e]
  BY <1>5
<1>7. f \in Injection(covered, SoleWorks(p))
  <2>1. f \in [covered -> SoleWorks(p)] /\ DOMAIN f = covered
    BY <1>6
  <2>. HIDE DEF f
  <2>2. \A x, y \in covered : f[x] = f[y] => x = y
    BY <1>6 DEF SameIdentity
  <2>. QED  BY <2>1, <2>2 DEF Injection, IsInjective
<1>8. IsFiniteSet(covered) /\ Cardinality(covered) <= Cardinality(SoleWorks(p))
  BY <1>2, <1>7, FS_Injection
<1>. QED  BY <1>2, <1>8, FS_CardinalityType DEF covered

LEMMA RowIsCovered ==
  ASSUME WritingAssumption, SameIdentity, NEW c, CallOK(c), c.pc = "register"
  PROVE  Covered(Row(c))
<1>. DEFINE p == Row(c)
<1>1. /\ p.task = c.prof.task /\ p.draft = c.draft /\ p.minimum = c.prof.minimum
      /\ p.catalog = c.catalog
  BY DEF Row
<1>. HIDE DEF p
<1>. SUFFICES ASSUME p.task = "WRITE_INTRODUCTION", p.minimum > 0
              PROVE  Cardinality(SoleWorks(p)) >= IntroductionMinimum
  BY DEF Covered, p
<1>2. c.prof.minimum \in Nat /\ IntroductionMinimum \in Nat
  BY DEF CallOK, WritingAssumption
<1>3. Sufficient(c, c.draft.keys)
  BY <1>1 DEF CallOK, DraftOK, Introduction
<1>4. Cardinality(Coverage(c.catalog, c.draft.keys)) >= Minimum(c)
  BY <1>1, <1>2, <1>3 DEF Sufficient
<1>5. Minimum(c) \in Nat /\ Minimum(c) >= IntroductionMinimum
  BY <1>2 DEF Minimum
<1>6. \A q \in p.catalog : q[2] \in Evidence
  BY <1>1 DEF CallOK
<1>. QED  BY <1>1, <1>2, <1>4, <1>5, <1>6, CoverageCountsWorks

\* Registering keeps what is stored, or stores the row of the call.
LEMMA RegisterStores ==
  ASSUME CallInv, NEW r \in Requests, Register(r)
  PROVE  /\ CallOK(call[r]) /\ call[r].pc = "register"
         /\ patches'[r] = IF patches[r] = Nothing THEN Row(call[r]) ELSE patches[r]
         /\ \A q \in Requests \ {r} : patches'[q] = patches[q]
BY DEF CallInv, CallsOK, Register, At, Kept

\* A step changes no patch, or it is a Register.
LEMMA PatchSteps ==
  ASSUME CallInv, [Next]_vars
  PROVE  UNCHANGED patches \/ \E r \in Requests : Register(r)
<1>1. CASE \/ \E s \in Sections : EditSection(s)
           \/ \E w \in Works : EditBib(w)
           \/ \E k \in confirmed : Retract(k)
           \/ UNCHANGED vars
  BY <1>1, Surroundings
<1>. QED  BY <1>1, RequestSteps DEF Next

-----------------------------------------------------------------------------
\* What every place of a request knows of its packs, its catalog, its bindings
\* and its draft holds in every state (app/scholar/writing/service.py).
THEOREM WritingInvariant == Spec => []CallInv
<1>. QED  BY WritingAssumption, CallInitOK, CallStepOK, PTL DEF Spec

\* An approved introduction rests every claim on evidence its own need may find,
\* cites it, gives no bound key two works and names confirmed contributions only,
\* in whatever order the needs finished and however often the draft was revised
\* or the request was executed again (write_introduction).
THEOREM IntroductionsAreGrounded == Spec => []ApprovedIsGrounded
<1>1. ApprovedIsGrounded <=> \A r \in Requests : Grounded(patches[r])
  BY DEF ApprovedIsGrounded, Grounded
<1>2. Init => ApprovedIsGrounded
  BY DEF Init, ApprovedIsGrounded
<1>3. CallInv /\ ApprovedIsGrounded /\ [Next]_vars => ApprovedIsGrounded'
  <2>. SUFFICES ASSUME CallInv, ApprovedIsGrounded, [Next]_vars PROVE ApprovedIsGrounded'
    OBVIOUS
  <2>1. CASE UNCHANGED patches
    BY <2>1 DEF ApprovedIsGrounded, WorksOfKey
  <2>2. ASSUME NEW r \in Requests, Register(r) PROVE ApprovedIsGrounded'
    <3>1. PICK c : c = call[r]
      OBVIOUS
    <3>2. Grounded(Row(c))
      BY <2>2, <3>1, RegisterStores, RowIsGrounded, WritingAssumption
    <3>3. PICK q : q = patches'
      OBVIOUS
    <3>4. \A s \in Requests : Grounded(q[s])
      BY <1>1, <2>2, <3>1, <3>2, <3>3, RegisterStores
    <3>. QED  BY <3>3, <3>4 DEF ApprovedIsGrounded, Grounded
  <2>. QED  BY <2>1, <2>2, PatchSteps
<1>. QED  BY <1>2, <1>3, WritingInvariant, PTL DEF Spec

\* Where papers and citation identities agree, a registered introduction with a
\* paper minimum cites that many works by keys that stand for one work each
\* (citation_coverage.py and its second count before the registration).
THEOREM IntroductionsAreCovered ==
  ASSUME SameIdentity
  PROVE  Spec => []PapersCovered
<1>1. PapersCovered <=> \A r \in Requests : Covered(patches[r])
  BY DEF PapersCovered, Covered, SoleWorks
<1>2. Init => PapersCovered
  BY DEF Init, PapersCovered
<1>3. CallInv /\ PapersCovered /\ [Next]_vars => PapersCovered'
  <2>. SUFFICES ASSUME CallInv, PapersCovered, [Next]_vars PROVE PapersCovered'
    OBVIOUS
  <2>1. CASE UNCHANGED patches
    BY <2>1 DEF PapersCovered, WorksOfKey
  <2>2. ASSUME NEW r \in Requests, Register(r) PROVE PapersCovered'
    <3>1. PICK c : c = call[r]
      OBVIOUS
    <3>2. Covered(Row(c))
      BY <2>2, <3>1, RegisterStores, RowIsCovered, WritingAssumption
    <3>3. PICK q : q = patches'
      OBVIOUS
    <3>4. \A s \in Requests : Covered(q[s])
      BY <1>1, <2>2, <3>1, <3>2, <3>3, RegisterStores
    <3>. QED  BY <3>3, <3>4 DEF PapersCovered, Covered, SoleWorks
  <2>. QED  BY <2>1, <2>2, PatchSteps
<1>. QED  BY <1>2, <1>3, WritingInvariant, PTL DEF Spec

\* No execution of a request replaces the patch an earlier one registered
\* (ProjectStore.save_patch).
THEOREM ProposalsAreKept == Spec => ProposalKept
<1>1. CallInv /\ [Next]_vars
        => [\A r \in Requests : patches[r] # Nothing => patches'[r] = patches[r]]_vars
  BY PatchSteps, RegisterStores
<1>. QED  BY <1>1, WritingInvariant, PTL DEF Spec, ProposalKept
=============================================================================
