--------------------------- MODULE PackCoreProofs ---------------------------
(* What is proved of the stages that a pack goes through, of the catalog that
   brings one and of the engine's adapters (Scans, Documents, Sentences,
   Chunking, PackFile, Retrieval, CatalogDist, AdapterStack, TokenStream,
   Transcripts), each for every value of its constants. One section per stage:
   its inductive invariant, that each step keeps it, and the property. *)
EXTENDS Scans, Documents, Sentences, Chunking, PackFile, Retrieval, CatalogDist,
        AdapterStack, TokenStream, Transcripts, FiniteSetTheorems, SequenceTheorems, TLAPS

-----------------------------------------------------------------------------
(* Scanned pages *)

\* A process and files only while a page is polled (or the app has ended); the
\* pages behind the one the build is at are the ones tried.
ScanInv ==
  /\ pdf \in Seq({"text", "image"}) /\ pages \in [DOMAIN pdf -> {"text", "image"}]
  /\ nth \in Nat /\ cancelled \in BOOLEAN
  /\ \A k \in DOMAIN pdf : pdf[k] = "text" => pages[k] = "text"
  /\ ocr \notin {"poll", "ended"} => tesseract = "none" /\ scratch = {}
  /\ ocr = "extracted" => tried = {} /\ nth = 1
  /\ ocr \in {"page", "render", "poll"} => tried = {k \in ImagePages : k < nth}
  /\ ocr \in {"render", "poll"} => nth \in ImagePages
  /\ ocr = "merged" /\ ready /\ ~cancelled => tried = ImagePages
  /\ ocr = "built" /\ ready => tried = ImagePages

LEMMA ScanInit == OcrInit => ScanInv
<1> SUFFICES ASSUME OcrInit PROVE ScanInv
  OBVIOUS
<1>1. pdf \in Seq({"text", "image"}) /\ pages = pdf
  BY ScansAssumption DEF OcrInit
<1>2. pages \in [DOMAIN pdf -> {"text", "image"}]
  BY <1>1
<1> QED BY <1>1, <1>2 DEF OcrInit, ScanInv

LEMMA ImagesAreNat == ScanInv => ImagePages \subseteq Nat \ {0}
  BY DEF ScanInv, ImagePages

\* Whatever ends a page's turn leaves nothing of it behind.
LEMMA ScanPageDone ==
  ASSUME ScanInv, NEW t \in BOOLEAN, PageDone(t), ocr \in {"render", "poll"},
         tesseract' = "none", UNCHANGED <<pdf, ready, cancelled>>
  PROVE  ScanInv'
<1>1. /\ nth \in ImagePages /\ nth' = nth + 1 /\ nth \in Nat /\ ImagePages' = ImagePages
      /\ ocr' = "page" /\ scratch' = {} /\ tried' = tried \cup {nth}
  BY DEF ScanInv, PageDone, ImagePages
<1>2. tried' = {k \in ImagePages : k < nth'}
  <2>1. tried = {k \in ImagePages : k < nth}
    BY DEF ScanInv
  <2>2. \A k \in ImagePages : k < nth + 1 <=> k < nth \/ k = nth
    BY <1>1, ImagesAreNat
  <2> QED BY <1>1, <2>1, <2>2
<1>3. /\ pages' \in [DOMAIN pdf -> {"text", "image"}]
      /\ \A k \in DOMAIN pdf : pdf[k] = "text" => pages'[k] = "text"
  BY <1>1 DEF PageDone, ScanInv, ImagePages
<1> QED BY <1>1, <1>2, <1>3 DEF ScanInv

LEMMA ScanStep == ASSUME ScanInv, [OcrNext]_ocrvars PROVE ScanInv'
<1> USE DEF Process
<1>1. CASE Partition
  <2>1. ImagePages' = ImagePages /\ (ImagePages = {} \/ ~ready \/ ocr' # "merged")
    BY <1>1 DEF Partition, ImagePages
  <2>2. {k \in ImagePages : k < 1} = {}
    BY ImagesAreNat
  <2> QED BY <1>1, <2>1, <2>2 DEF Partition, ScanInv
<1>2. CASE CancelScan
  BY <1>2 DEF CancelScan, Settled, ScanInv, ImagePages
<1>3. CASE NextPage
  <2>1. ImagePages' = ImagePages
    BY <1>3 DEF NextPage, ImagePages
  <2>2. CASE cancelled \/ \A k \in ImagePages : k < nth
    BY <1>3, <2>1, <2>2 DEF NextPage, ScanInv
  <2>3. CASE ~(cancelled \/ \A k \in ImagePages : k < nth)
    <3>1. /\ ocr = "page" /\ ocr' = "render" /\ nth' \in ImagePages /\ nth' >= nth
          /\ \A j \in ImagePages : j >= nth => j >= nth'
      BY <1>3, <2>3 DEF NextPage
    <3>2. {k \in ImagePages : k < nth'} = {k \in ImagePages : k < nth}
      BY <3>1, ImagesAreNat DEF ScanInv
    <3> QED BY <1>3, <2>1, <3>1, <3>2, ImagesAreNat DEF NextPage, ScanInv
  <2> QED BY <2>2, <2>3
<1>4. CASE Spawn
  <2>1. CASE PageDone(FALSE) /\ UNCHANGED tesseract
    <3>1. tesseract' = "none" /\ ocr = "render" /\ UNCHANGED <<pdf, ready, cancelled>>
      BY <1>4, <2>1 DEF Spawn, ScanInv
    <3> QED BY <2>1, <3>1, ScanPageDone
  <2>2. CASE ocr' = "poll" /\ UNCHANGED <<pages, nth, tried, polls>>
    BY <1>4, <2>2 DEF Spawn, ScanInv, ImagePages
  <2> QED BY <1>4, <2>1, <2>2 DEF Spawn
<1>5. CASE Recognizes
  BY <1>5 DEF Recognizes, ScanInv, ImagePages
<1>6. CASE PollAgain
  BY <1>6 DEF PollAgain, Polled, ScanInv, ImagePages
<1>7. CASE OutOfTime \/ Exited \/ Unwaited
  <2>1. /\ ocr = "poll" /\ tesseract' = "none" /\ UNCHANGED <<pdf, ready, cancelled>>
        /\ \E t \in BOOLEAN : PageDone(t)
    BY <1>7 DEF OutOfTime, Exited, Unwaited, Polled
  <2> QED BY <2>1, ScanPageDone
<1>8. CASE Merge
  BY <1>8 DEF Merge, ScanInv, ImagePages
<1>9. CASE OcrEnd
  BY <1>9 DEF OcrEnd, ScanInv, ImagePages
<1>10. CASE UNCHANGED ocrvars
  BY <1>10 DEF ocrvars, ScanInv, ImagePages
<1> QED BY <1>1, <1>2, <1>3, <1>4, <1>5, <1>6, <1>7, <1>8, <1>9, <1>10 DEF OcrNext, OcrSteps

\* ScanIsWhole: a PDF of any number of pages leaves no process and no file, and a
\* pack is built from whole pages only.
THEOREM ScansAreWhole == OcrSpec => []ScanIsWhole
<1>1. ScanInv => ScanIsWhole
  BY DEF ScanInv, ScanIsWhole, Settled, ImagePages
<1> QED BY ScanInit, ScanStep, <1>1, PTL DEF OcrSpec

\* How far a build still is from the end of its scan, the first of these that
\* changes deciding: its stage, the pages behind the one it is at, its place in
\* that page's turn, and the polls left.
OcrStage == [extracted |-> 3, page |-> 2, render |-> 2, poll |-> 2, merged |-> 1]
OcrTurn == [page |-> 3, render |-> 2, poll |-> 1]
Between == {"page", "render", "poll"}
ScanNearer ==
  \/ Settled'
  \/ OcrStage[ocr'] < OcrStage[ocr]
  \/ {ocr, ocr'} \subseteq Between /\ nth' > nth /\ nth' <= Len(pdf) + 1
  \/ {ocr, ocr'} \subseteq Between /\ nth' >= nth /\ nth' <= Len(pdf)
     /\ OcrTurn[ocr'] < OcrTurn[ocr]
  \/ UNCHANGED <<ocr, nth>> /\ ocr = "poll" /\ polls' > polls /\ polls' <= Patience
ScanNears ==
  \/ ScanNearer
  \/ UNCHANGED <<ocr, nth, polls>> /\ ~OcrSteps
ScanPlaces ==
  /\ polls \in 0..Patience
  /\ ~Settled => ocr \in Between \cup {"extracted", "merged"}
  /\ ocr \in {"extracted", "page", "render"} => polls = 0

LEMMA ScanTurns ==
  ASSUME ScanInv, ScanPlaces, [OcrNext]_ocrvars
  PROVE  ScanPlaces' /\ (OcrNext => ScanNears)
<1>0. /\ Patience \in Nat /\ Len(pdf) \in Nat /\ nth \in Nat /\ polls \in 0..Patience
      /\ ImagePages \subseteq 1..Len(pdf)
  BY ScansAssumption DEF ScanInv, ScanPlaces, ImagePages
<1>1. CASE Partition
  <2>1. /\ ocr = "extracted" /\ ocr' \in {"merged", "refused", "page"}
        /\ polls' = polls /\ polls = 0
    BY <1>1 DEF Partition, Process, ScanPlaces
  <2>2. OcrStage["extracted"] = 3 /\ OcrStage["merged"] = 1 /\ OcrStage["page"] = 2
    BY DEF OcrStage
  <2>3. ScanPlaces'
    BY <1>0, <2>1 DEF ScanPlaces, Settled, Between
  <2> QED BY <2>1, <2>2, <2>3 DEF ScanNears, ScanNearer, Settled
\* A page that is done with, or the next one.
<1>2. ASSUME NEW t \in BOOLEAN, PageDone(t), ocr \in {"render", "poll"}
      PROVE  ScanPlaces' /\ ScanNears
  <2>1. nth \in 1..Len(pdf) /\ nth' = nth + 1 /\ ocr' = "page" /\ polls' = 0
    BY <1>0, <1>2 DEF PageDone, ScanInv
  <2>2. ScanPlaces'
    BY <1>0, <2>1 DEF ScanPlaces, Settled, Between
  <2> QED BY <1>0, <1>2, <2>1, <2>2 DEF ScanNears, ScanNearer, Between
<1>3. CASE NextPage
  <2>1. ocr = "page" /\ polls' = polls
    BY <1>3 DEF NextPage, Process
  <2>2. CASE ocr' = "merged"
    <3>1. OcrStage["page"] = 2 /\ OcrStage["merged"] = 1
      BY DEF OcrStage
    <3>2. ScanPlaces'
      BY <1>0, <2>1, <2>2 DEF ScanPlaces, Settled, Between
    <3> QED BY <2>1, <2>2, <3>1, <3>2 DEF ScanNears, ScanNearer
  <2>3. CASE ocr' = "render" /\ nth' \in ImagePages /\ nth' >= nth
    <3>1. OcrTurn["render"] = 2 /\ OcrTurn["page"] = 3
      BY DEF OcrTurn
    <3>2. nth' \in 1..Len(pdf) /\ nth' <= Len(pdf)
      BY <1>0, <2>3
    <3>3. ScanPlaces'
      BY <1>0, <2>1, <2>3 DEF ScanPlaces, Settled, Between
    <3> QED BY <1>0, <2>1, <2>3, <3>1, <3>2, <3>3 DEF ScanNears, ScanNearer, Between
  <2> QED BY <1>3, <2>2, <2>3 DEF NextPage
<1>4. CASE Spawn
  <2>1. CASE PageDone(FALSE)
    BY <1>2, <1>4, <2>1 DEF Spawn
  <2>2. CASE ocr' = "poll" /\ UNCHANGED <<nth, polls>>
    <3>1. ocr = "render" /\ nth \in 1..Len(pdf)
      BY <1>0, <1>4 DEF Spawn, ScanInv
    <3>2. OcrTurn["render"] = 2 /\ OcrTurn["poll"] = 1
      BY DEF OcrTurn
    <3>3. ScanPlaces'
      BY <1>0, <2>2, <3>1 DEF ScanPlaces, Settled, Between
    <3> QED BY <1>0, <2>2, <3>1, <3>2, <3>3 DEF ScanNears, ScanNearer, Between
  <2> QED BY <1>4, <2>1, <2>2 DEF Spawn
<1>5. CASE PollAgain
  <2>1. ocr = "poll" /\ polls' = polls + 1 /\ polls < Patience /\ UNCHANGED <<ocr, nth>>
    BY <1>5 DEF PollAgain, Polled
  <2> QED BY <1>0, <2>1 DEF ScanNears, ScanNearer, ScanPlaces, Settled, Between
<1>6. CASE OutOfTime \/ Exited \/ Unwaited
  <2>1. ocr = "poll" /\ \E t \in BOOLEAN : PageDone(t)
    BY <1>6 DEF OutOfTime, Exited, Unwaited, Polled
  <2> QED BY <1>2, <2>1
<1>7. CASE Merge \/ OcrEnd
  <2>1. Settled' /\ polls' = polls /\ ocr' \notin {"extracted", "page", "render"}
    BY <1>7 DEF Merge, OcrEnd, Settled, Process
  <2> QED BY <2>1 DEF ScanNears, ScanNearer, ScanPlaces
<1>8. CASE CancelScan \/ Recognizes \/ UNCHANGED ocrvars
  <2>1. UNCHANGED <<ocr, nth, polls>>
    BY <1>8 DEF CancelScan, Recognizes, Process, ocrvars
  <2> QED BY <1>1, <1>2, <1>3, <1>4, <1>5, <1>6, <1>7, <2>1
          DEF ScanPlaces, ScanNears, Settled, OcrSteps
<1> QED BY <1>1, <1>3, <1>4, <1>5, <1>6, <1>7, <1>8 DEF OcrNext, OcrSteps

\* Every step of the build through a scan, whatever tesseract does and whenever
\* the user cancels, brings it nearer its end, by the clock of polls if by
\* nothing else; and nothing else that happens sends it back (kpack.rs,
\* ocr_fill_pages; ocr.rs, ocr_png).
THEOREM ScansWindDown == OcrSpec => [][ScanNears]_ocrvars
<1>1. OcrInit => ScanInv /\ ScanPlaces
  BY ScanInit, ScansAssumption DEF OcrInit, ScanPlaces, Settled
<1>2. ScanInv /\ ScanPlaces /\ [OcrNext]_ocrvars => (ScanInv /\ ScanPlaces)' /\ [ScanNears]_ocrvars
  BY ScanStep, ScanTurns
<1> QED BY <1>1, <1>2, PTL DEF OcrSpec


-----------------------------------------------------------------------------
(* Documents *)

Section == [text : Nat, under : Seq(Nat)]
\* What was read is numbered on from the sections to the open ones to the list's.
Numbered ==
  /\ Len(told) = Len(sections) + Len(blocks) + Len(list)
  /\ \A k \in 1..Len(sections) : sections[k].text = k
  /\ \A k \in 1..Len(blocks) : blocks[k] = Len(sections) + k
  /\ \A k \in 1..Len(list) : list[k] = Len(sections) + Len(blocks) + k
\* A list's texts have its buffer to themselves.
Listed ==
  /\ depth = 0 => list = << >>
  /\ depth > 0 => target = "list" /\ format = "md"
  /\ source = "ended" => blocks = << >> /\ list = << >>
\* The stack holds one heading per level, those that enclose what is read next.
Nested ==
  /\ path = stack
  /\ \A j \in 1..Len(stack) : stack[j] \in 1..Len(heads) /\ heads[stack[j]] = j
  /\ \A j \in 1..(Len(stack) - 1) : stack[j] < stack[j + 1]
  /\ {stack[j] : j \in 1..Len(stack)} = Enclosing(heads)
Under(s, levels) ==
  /\ {s[j] : j \in 1..Len(s)} = Enclosing(levels)
  /\ \A j \in 1..(Len(s) - 1) : s[j] < s[j + 1]
Ancestry ==
  /\ \A k \in (Len(sections) + 1)..Len(told) : told[k] = heads
  /\ \A k \in 1..Len(sections) : Under(sections[k].under, told[k])
DocInv == DTypeOK /\ Numbered /\ Listed /\ Nested /\ Ancestry

LEMMA DocInit == DInit => DocInv
<1> SUFFICES ASSUME DInit PROVE DocInv
  OBVIOUS
<1>1. DTypeOK /\ Numbered /\ Listed
  BY DEF DInit, DTypeOK, Numbered, Listed
<1>2. Nested /\ Ancestry
  BY DEF DInit, Nested, Ancestry, Enclosing
<1> QED BY <1>1, <1>2 DEF DocInv

LEMMA CutFacts ==
  ASSUME DTypeOK
  PROVE  /\ Cut \in Seq(Section) /\ Len(Cut) = Len(sections) + Len(blocks)
         /\ \A k \in 1..Len(sections) : Cut[k] = sections[k]
         /\ \A k \in (Len(sections) + 1)..(Len(sections) + Len(blocks)) :
              Cut[k] = [text |-> blocks[k - Len(sections)], under |-> path]
<1> DEFINE s == [k \in 1..Len(blocks) |-> [text |-> blocks[k], under |-> path]]
<1>1. /\ blocks \in Seq(Nat) /\ path \in Seq(Nat) /\ sections \in Seq(Section)
      /\ Len(blocks) \in Nat /\ Len(sections) \in Nat
  BY DEF DTypeOK, Section
<1>2. \A k \in 1..Len(blocks) : s[k] \in Section
  BY <1>1 DEF Section
<1>3. s \in Seq(Section) /\ Len(s) = Len(blocks)
  BY <1>1, <1>2
<1>4. \A k \in 1..Len(blocks) : s[k] = [text |-> blocks[k], under |-> path]
  OBVIOUS
<1> HIDE DEF s
<1>5. Cut = sections \o s
  BY DEF Cut, s
<1>6. /\ Cut \in Seq(Section) /\ Len(Cut) = Len(sections) + Len(blocks)
      /\ \A k \in 1..Len(sections) : Cut[k] = sections[k]
      /\ \A k \in (Len(sections) + 1)..(Len(sections) + Len(blocks)) :
           Cut[k] = s[k - Len(sections)]
  BY <1>1, <1>3, <1>5
<1>7. ASSUME NEW k \in (Len(sections) + 1)..(Len(sections) + Len(blocks))
      PROVE  Cut[k] = [text |-> blocks[k - Len(sections)], under |-> path]
  <2>1. k - Len(sections) \in 1..Len(blocks)
    BY <1>1
  <2> QED BY <1>4, <1>6, <2>1
<1> QED BY <1>6, <1>7

\* The section is cut: every text read so far is in a section.
LEMMA CutStep ==
  ASSUME DocInv, list = << >>, sections' = Cut, blocks' = << >>, list' = list, told' = told
  PROVE  /\ sections' \in Seq(Section) /\ Numbered' /\ Len(sections') = Len(told')
         /\ \A k \in 1..Len(sections') : Under(sections'[k].under, told'[k])
<1>1. /\ Len(told) = Len(sections) + Len(blocks) /\ Len(sections) \in Nat
      /\ Len(blocks) \in Nat /\ told \in Seq(Seq(Levels)) /\ DTypeOK
  BY DEF DocInv, Numbered, DTypeOK
<1>2. /\ sections' \in Seq(Section) /\ Len(sections') = Len(told)
      /\ \A k \in 1..Len(sections) : sections'[k] = sections[k]
      /\ \A k \in (Len(sections) + 1)..Len(told) :
           sections'[k] = [text |-> blocks[k - Len(sections)], under |-> path]
  BY <1>1, CutFacts
<1>3. \A k \in 1..Len(told) : sections'[k].text = k
  <2> TAKE k \in 1..Len(told)
  <2>1. CASE k \in 1..Len(sections)
    BY <1>2, <2>1 DEF DocInv, Numbered
  <2>2. CASE k \in (Len(sections) + 1)..Len(told)
    <3>1. k - Len(sections) \in 1..Len(blocks)
      BY <1>1, <2>2
    <3>2. blocks[k - Len(sections)] = Len(sections) + (k - Len(sections))
      BY <3>1 DEF DocInv, Numbered
    <3> PICK e : e = sections'[k]
      OBVIOUS
    <3>3. e = [text |-> blocks[k - Len(sections)], under |-> path]
      BY <1>2, <2>2
    <3>5. e.text = blocks[k - Len(sections)]
      BY <3>3
    <3>4. Len(sections) + (k - Len(sections)) = k
      BY <1>1, <2>2
    <3> QED BY <3>2, <3>4, <3>5
  <2> QED BY <1>1, <2>1, <2>2
<1>4. \A k \in 1..Len(told) : Under(sections'[k].under, told[k])
  <2> TAKE k \in 1..Len(told)
  <2>1. CASE k \in 1..Len(sections)
    BY <1>2, <2>1 DEF DocInv, Ancestry
  <2>2. CASE k \in (Len(sections) + 1)..Len(told)
    <3> PICK e : e = sections'[k]
      OBVIOUS
    <3>3. e = [text |-> blocks[k - Len(sections)], under |-> path]
      BY <1>2, <2>2
    <3>4. e.under = path
      BY <3>3
    <3>1. sections'[k].under = path /\ told[k] = heads /\ path = stack
      BY <2>2, <3>4 DEF DocInv, Ancestry, Nested
    <3>2. Under(stack, heads)
      BY DEF DocInv, Nested, Under
    <3> QED BY <3>1, <3>2
  <2> QED BY <1>1, <2>1, <2>2
<1>5. Numbered'
  BY <1>1, <1>2, <1>3 DEF Numbered
<1> QED BY <1>2, <1>4, <1>5

\* A heading closes those of its level and below.
LEMMA HeadingStep ==
  ASSUME DocInv, "leaps" \notin Beyond, NEW level \in Levels, Heading(level)
  PROVE  Nested' /\ stack' \in Seq(Nat) /\ heads' \in Seq(Levels)
<1>0. level \in Nat \ {0} /\ heads \in Seq(Levels) /\ stack \in Seq(Nat)
  BY DocumentsAssumption DEF DocInv, DTypeOK
<1>1. /\ level \in Nat \ {0} /\ Len(heads) \in Nat /\ Len(stack) \in Nat
      /\ level <= Len(stack) + 1
  BY <1>0 DEF Heading
<1>00. \A k \in 1..Len(heads) : heads[k] \in Nat
  <2>1. Levels \subseteq Nat
    BY DocumentsAssumption
  <2>2. \A k \in 1..Len(heads) : heads[k] \in Levels
    BY <1>0
  <2> QED BY <2>1, <2>2
<1> DEFINE s == SubSeq(stack, 1, level - 1)
           m == Len(heads) + 1
<1>2. s \in Seq(Nat) /\ Len(s) = level - 1 /\ \A j \in 1..(level - 1) : s[j] = stack[j]
  BY <1>0, <1>1
<1>3. Top(stack, level - 1) = s
  <2>1. (IF level - 1 < Len(stack) THEN level - 1 ELSE Len(stack)) = level - 1
    BY <1>1
  <2> QED BY <2>1 DEF Top
<1> HIDE DEF s
<1>4. /\ stack' = Append(s, m) /\ path' = stack' /\ heads' = Append(heads, level)
  BY <1>3 DEF Heading, Opened
<1>5. /\ stack' \in Seq(Nat) /\ Len(stack') = level /\ stack'[level] = m
      /\ \A j \in 1..(level - 1) : stack'[j] = stack[j]
  BY <1>0, <1>1, <1>2, <1>4
<1>6. /\ heads' \in Seq(Levels) /\ Len(heads') = m /\ heads'[m] = level
      /\ \A k \in 1..Len(heads) : heads'[k] = heads[k]
  BY <1>0, <1>1, <1>4
<1>7. /\ \A j \in 1..Len(stack) : stack[j] \in 1..Len(heads) /\ heads[stack[j]] = j
      /\ \A j \in 1..(Len(stack) - 1) : stack[j] < stack[j + 1]
      /\ {stack[j] : j \in 1..Len(stack)} = Enclosing(heads)
  BY DEF DocInv, Nested
<1>8. \A j \in 1..level : stack'[j] \in 1..m /\ heads'[stack'[j]] = j
  <2> TAKE j \in 1..level
  <2>1. CASE j = level
    BY <1>1, <1>5, <1>6, <2>1
  <2>2. CASE j \in 1..(level - 1)
    <3>1. j \in 1..Len(stack) /\ stack'[j] = stack[j]
      BY <1>1, <1>5, <2>2
    <3> QED BY <1>1, <1>6, <1>7, <3>1
  <2> QED BY <1>1, <2>1, <2>2
<1>9. \A j \in 1..(level - 1) : stack'[j] < stack'[j + 1]
  <2> TAKE j \in 1..(level - 1)
  <2>1. j \in 1..Len(stack) /\ stack'[j] = stack[j] /\ stack[j] \in 1..Len(heads)
    BY <1>1, <1>5, <1>7
  <2>2. CASE j + 1 = level
    BY <1>1, <1>5, <2>1, <2>2
  <2>3. CASE j + 1 \in 1..(level - 1)
    <3>1. j \in 1..(Len(stack) - 1) /\ stack'[j + 1] = stack[j + 1]
      BY <1>1, <1>5, <2>3
    <3> QED BY <1>7, <2>1, <3>1
  <2> QED BY <1>1, <2>2, <2>3
<1>10. {stack'[j] : j \in 1..level} = Enclosing(heads')
  <2>1. ASSUME NEW x \in Enclosing(heads') PROVE \E j \in 1..level : stack'[j] = x
    <3>1. x \in 1..m /\ \A k \in (x + 1)..m : heads'[k] > heads'[x]
      BY <1>6, <2>1 DEF Enclosing
    <3>2. CASE x = m
      BY <1>1, <1>5, <3>2
    <3>3. CASE x \in 1..Len(heads)
      <4>1. x \in Enclosing(heads)
        <5>1. \A k \in (x + 1)..Len(heads) : heads[k] > heads[x]
          BY <1>1, <1>6, <3>1, <3>3
        <5> QED BY <3>3, <5>1 DEF Enclosing
      <4>2. PICK j \in 1..Len(stack) : stack[j] = x
        BY <1>7, <4>1
      <4>3. heads[x] = j /\ heads[x] < level
        BY <1>1, <1>00, <1>6, <1>7, <3>1, <3>3, <4>2
      <4>4. j \in 1..(level - 1) /\ j \in 1..level
        BY <1>1, <4>3
      <4> QED BY <1>5, <4>2, <4>4
    <3> QED BY <1>1, <3>1, <3>2, <3>3
  <2>2. ASSUME NEW j \in 1..level PROVE stack'[j] \in Enclosing(heads')
    <3>1. CASE j = level
      <4>1. stack'[j] = m /\ (m + 1)..m = {}
        BY <1>1, <1>5, <3>1
      <4>2. m \in 1..m
        BY <1>1
      <4> QED BY <1>6, <4>1, <4>2 DEF Enclosing
    <3>2. CASE j \in 1..(level - 1)
      <4>1. j \in 1..Len(stack) /\ stack'[j] = stack[j]
        BY <1>1, <1>5, <3>2
      <4> DEFINE x == stack[j]
      <4>2. x \in 1..Len(heads) /\ heads[x] = j /\ x \in Enclosing(heads)
        BY <1>7, <4>1
      <4> HIDE DEF x
      <4>3. \A k \in (x + 1)..m : heads'[k] > heads'[x]
        <5> TAKE k \in (x + 1)..m
        <5>1. CASE k = m
          BY <1>1, <1>00, <1>6, <3>2, <4>2, <5>1
        <5>2. CASE k \in (x + 1)..Len(heads)
          <6>1. heads[k] > heads[x] /\ k \in 1..Len(heads)
            BY <1>1, <4>2, <5>2 DEF Enclosing
          <6> QED BY <1>6, <4>2, <6>1
        <5> QED BY <1>1, <4>2, <5>1, <5>2
      <4>4. x \in 1..m
        BY <1>1, <4>2
      <4> QED BY <1>6, <4>1, <4>3, <4>4 DEF Enclosing, x
    <3> QED BY <1>1, <3>1, <3>2
  <2>3. \A x \in Enclosing(heads') : \E j \in 1..level : stack'[j] = x
    BY <2>1
  <2>4. \A j \in 1..level : stack'[j] \in Enclosing(heads')
    BY <2>2
  <2> QED BY <2>3, <2>4
<1>11. Nested'
  BY <1>4, <1>5, <1>6, <1>8, <1>9, <1>10 DEF Nested
<1> QED BY <1>5, <1>6, <1>11

\* Nothing changes of what the texts stand under but the texts.
LEMMA NestedFrame ==
  ASSUME Nested, UNCHANGED <<stack, path, heads>> PROVE Nested'
  BY DEF Nested

LEMMA AncestryFrame ==
  ASSUME Ancestry, UNCHANGED <<heads, sections>>,
         \A k \in (Len(sections) + 1)..Len(told') : told'[k] = heads,
         \A k \in 1..Len(sections) : told'[k] = told[k]
  PROVE  Ancestry'
<1>1. \A k \in (Len(sections') + 1)..Len(told') : told'[k] = heads'
  OBVIOUS
<1>2. \A k \in 1..Len(sections') : Under(sections'[k].under, told'[k])
  BY DEF Ancestry
<1> QED BY <1>1, <1>2 DEF Ancestry

\* One more text is read, into the open blocks or into the list.
LEMMA ToldStep ==
  ASSUME DocInv, NewText
  PROVE  /\ told' \in Seq(Seq(Levels)) /\ Len(told') = This /\ This \in Nat
         /\ This = Len(sections) + Len(blocks) + Len(list) + 1
         /\ \A k \in (Len(sections) + 1)..This : told'[k] = heads
         /\ \A k \in 1..Len(sections) : told'[k] = told[k]
<1>1. /\ told \in Seq(Seq(Levels)) /\ heads \in Seq(Levels) /\ Len(told) \in Nat
      /\ told' = Append(told, heads) /\ This = Len(told) + 1
      /\ Len(sections) \in Nat /\ Len(blocks) \in Nat /\ Len(list) \in Nat
      /\ Len(told) = Len(sections) + Len(blocks) + Len(list)
  BY DEF DocInv, DTypeOK, Numbered, NewText, This
<1>2. /\ told' \in Seq(Seq(Levels)) /\ Len(told') = Len(told) + 1
      /\ told'[Len(told) + 1] = heads
      /\ \A k \in 1..Len(told) : told'[k] = told[k]
  BY <1>1
<1>3. \A k \in (Len(sections) + 1)..This : told'[k] = heads
  <2> TAKE k \in (Len(sections) + 1)..This
  <2>1. CASE k = This
    BY <1>1, <1>2, <2>1
  <2>2. CASE k \in (Len(sections) + 1)..Len(told)
    <3>1. k \in 1..Len(told) /\ told[k] = heads
      BY <1>1, <2>2 DEF DocInv, Ancestry
    <3> QED BY <1>2, <3>1
  <2> QED BY <1>1, <2>1, <2>2
<1> QED BY <1>1, <1>2, <1>3

LEMMA DocSteps ==
  ASSUME DocInv, "leaps" \notin Beyond, "nested" \notin Beyond, [DNext]_dvars
  PROVE  DocInv'
<1>1. ASSUME NEW level \in Levels, Heading(level) PROVE DocInv'
  <2>1. depth = 0 /\ list = << >> /\ source = "open"
    BY <1>1 DEF Heading, Leaf, DocInv, DTypeOK, Listed
  <2>2. /\ sections' = Cut /\ blocks' = << >> /\ target' = "none"
        /\ UNCHANGED <<format, source, depth, list, told>> /\ path' = stack'
    BY <1>1 DEF Heading
  <2>3. /\ sections' \in Seq(Section) /\ Numbered' /\ Len(sections') = Len(told')
        /\ \A k \in 1..Len(sections') : Under(sections'[k].under, told'[k])
    BY <2>1, <2>2, CutStep
  <2>4. Nested' /\ stack' \in Seq(Nat) /\ heads' \in Seq(Levels)
    BY <1>1, HeadingStep
  <2>5. DTypeOK' /\ Listed'
    BY <2>1, <2>2, <2>3, <2>4 DEF DocInv, DTypeOK, Listed, Section
  <2>6. Ancestry'
    <3>1. (Len(sections') + 1)..Len(told') = {}
      BY <2>2, <2>3 DEF DocInv, DTypeOK
    <3> QED BY <2>3, <3>1 DEF Ancestry
  <2> QED BY <2>3, <2>4, <2>5, <2>6 DEF DocInv
<1>2. ASSUME Chapter \/ Read PROVE DocInv'
  <2>1. depth = 0 /\ list = << >> /\ source = "open"
    BY <1>2 DEF Chapter, Read, DocInv, DTypeOK, Listed
  <2>2. /\ sections' = Cut /\ blocks' = << >>
        /\ UNCHANGED <<format, depth, target, list, told>> /\ source' \in {"open", "ended"}
    BY <1>2, <2>1 DEF Chapter, Read
  <2>3. /\ sections' \in Seq(Section) /\ Numbered' /\ Len(sections') = Len(told')
        /\ \A k \in 1..Len(sections') : Under(sections'[k].under, told'[k])
    BY <2>1, <2>2, CutStep
  <2>4. Nested' /\ stack' \in Seq(Nat) /\ path' \in Seq(Nat) /\ heads' \in Seq(Levels)
    <3>1. CASE Chapter
      <4>1. stack' = << >> /\ path' = << >> /\ heads' = << >>
        BY <3>1 DEF Chapter
      <4> QED BY <4>1 DEF Nested, Enclosing
    <3>2. CASE Read
      BY <3>2, NestedFrame DEF Read, DocInv, DTypeOK
    <3> QED BY <1>2, <3>1, <3>2
  <2>5. DTypeOK' /\ Listed'
    BY <2>1, <2>2, <2>3, <2>4 DEF DocInv, DTypeOK, Listed, Section
  <2>6. Ancestry'
    <3>1. (Len(sections') + 1)..Len(told') = {}
      BY <2>2, <2>3 DEF DocInv, DTypeOK
    <3> QED BY <2>3, <3>1 DEF Ancestry
  <2> QED BY <2>3, <2>4, <2>5, <2>6 DEF DocInv
<1>3. ASSUME Paragraph \/ PageParagraph \/ Row \/ Table \/ Code PROVE DocInv'
  <2>1. depth = 0 /\ list = << >> /\ source = "open" /\ Emitted
    BY <1>3 DEF Paragraph, PageParagraph, Row, Table, Code, Leaf, Emitted, DocInv, DTypeOK, Listed
  <2>2. /\ blocks' = Append(blocks, This) /\ target' = "none"
        /\ UNCHANGED <<format, source, stack, path, depth, list, sections, heads>>
        /\ NewText
    BY <2>1 DEF Emitted
  <2>3. /\ blocks \in Seq(Nat) /\ Len(blocks) \in Nat /\ Len(sections) \in Nat /\ Len(list) = 0
    BY <2>1 DEF DocInv, DTypeOK
  <2>4. /\ told' \in Seq(Seq(Levels)) /\ Len(told') = This /\ This \in Nat
        /\ This = Len(sections) + Len(blocks) + 1
        /\ \A k \in (Len(sections) + 1)..This : told'[k] = heads
        /\ \A k \in 1..Len(sections) : told'[k] = told[k]
    BY <2>2, <2>3, ToldStep
  <2>5. /\ blocks' \in Seq(Nat) /\ Len(blocks') = Len(blocks) + 1
        /\ blocks'[Len(blocks) + 1] = This /\ \A k \in 1..Len(blocks) : blocks'[k] = blocks[k]
    BY <2>2, <2>3, <2>4
  <2>6. DTypeOK' /\ Listed'
    BY <2>1, <2>2, <2>4, <2>5 DEF DocInv, DTypeOK, Listed
  <2>7. Numbered'
    <3>1. \A k \in 1..Len(blocks') : blocks'[k] = Len(sections) + k
      <4> TAKE k \in 1..Len(blocks')
      <4>1. CASE k = Len(blocks) + 1
        BY <2>3, <2>4, <2>5, <4>1
      <4>2. CASE k \in 1..Len(blocks)
        BY <2>5, <4>2 DEF DocInv, Numbered
      <4> QED BY <2>3, <2>5, <4>1, <4>2
    <3>2. Len(list') = 0 /\ Len(told') = Len(sections') + Len(blocks') + Len(list')
      BY <2>2, <2>3, <2>4, <2>5
    <3> QED BY <2>2, <3>1, <3>2 DEF DocInv, Numbered
  <2>8. Nested' /\ Ancestry'
    BY <2>2, <2>4, NestedFrame, AncestryFrame DEF DocInv
  <2> QED BY <2>6, <2>7, <2>8 DEF DocInv
<1>4. ASSUME ListStart PROVE DocInv'
  <2>1. /\ depth' = depth + 1 /\ depth \in Nat /\ format = "md" /\ source = "open"
        /\ list' = list /\ target' = "list"
        /\ UNCHANGED <<format, source, stack, path, blocks, sections, heads, told>>
    BY <1>4 DEF ListStart, DocInv, DTypeOK, Listed
  <2>2. DTypeOK' /\ Listed'
    BY <2>1 DEF DocInv, DTypeOK, Listed
  <2>3. Numbered' /\ Nested' /\ Ancestry'
    BY <2>1, NestedFrame DEF DocInv, Numbered, Ancestry
  <2> QED BY <2>2, <2>3 DEF DocInv
<1>5. ASSUME ListText PROVE DocInv'
  <2>1. /\ depth > 0 /\ target = "list" /\ source = "open" /\ format = "md"
        /\ list' = Append(list, This) /\ NewText
        /\ UNCHANGED <<format, source, stack, path, blocks, depth, target, sections, heads>>
    BY <1>5 DEF ListText, DocInv, Listed
  <2>2. /\ list \in Seq(Nat) /\ Len(blocks) \in Nat /\ Len(sections) \in Nat /\ Len(list) \in Nat
    BY DEF DocInv, DTypeOK
  <2>3. /\ told' \in Seq(Seq(Levels)) /\ Len(told') = This /\ This \in Nat
        /\ This = Len(sections) + Len(blocks) + Len(list) + 1
        /\ \A k \in (Len(sections) + 1)..This : told'[k] = heads
        /\ \A k \in 1..Len(sections) : told'[k] = told[k]
    BY <2>1, ToldStep
  <2>4. /\ list' \in Seq(Nat) /\ Len(list') = Len(list) + 1
        /\ list'[Len(list) + 1] = This /\ \A k \in 1..Len(list) : list'[k] = list[k]
    BY <2>1, <2>2, <2>3
  <2>5. DTypeOK' /\ Listed'
    BY <2>1, <2>3, <2>4 DEF DocInv, DTypeOK, Listed
  <2>6. Numbered'
    <3>1. \A k \in 1..Len(list') : list'[k] = Len(sections) + Len(blocks) + k
      <4> TAKE k \in 1..Len(list')
      <4>1. CASE k = Len(list) + 1
        BY <2>2, <2>3, <2>4, <4>1
      <4>2. CASE k \in 1..Len(list)
        BY <2>4, <4>2 DEF DocInv, Numbered
      <4> QED BY <2>2, <2>4, <4>1, <4>2
    <3>2. Len(told') = Len(sections') + Len(blocks') + Len(list')
      BY <2>1, <2>2, <2>3, <2>4
    <3> QED BY <2>1, <3>1, <3>2 DEF DocInv, Numbered
  <2>7. Nested' /\ Ancestry'
    BY <2>1, <2>3, NestedFrame, AncestryFrame DEF DocInv
  <2> QED BY <2>5, <2>6, <2>7 DEF DocInv
<1>6. ASSUME ListEnd PROVE DocInv'
  <2>1. /\ depth \in Nat /\ depth > 0 /\ depth' = depth - 1 /\ source = "open"
        /\ UNCHANGED <<format, source, stack, path, sections, heads, told>>
        /\ blocks \in Seq(Nat) /\ list \in Seq(Nat) /\ target = "list" /\ format = "md"
    BY <1>6 DEF ListEnd, DocInv, DTypeOK, Listed
  <2>2. CASE depth # 1
    <3>1. depth' \in Nat /\ depth' > 0 /\ UNCHANGED <<blocks, list, target>>
      BY <1>6, <2>1, <2>2 DEF ListEnd
    <3>2. list' = list
      BY <1>6, <2>2 DEF ListEnd
    <3>3. DTypeOK' /\ Listed'
      BY <2>1, <3>1, <3>2 DEF DocInv, DTypeOK, Listed
    <3>4. Numbered' /\ Nested' /\ Ancestry'
      BY <2>1, <3>1, <3>2, NestedFrame DEF DocInv, Numbered, Ancestry
    <3> QED BY <3>3, <3>4 DEF DocInv
  <2>3. CASE depth = 1
    <3>1. depth' = 0 /\ blocks' = blocks \o list /\ list' = << >> /\ target' = "none"
      BY <1>6, <2>1, <2>3 DEF ListEnd
    <3>2. /\ blocks' \in Seq(Nat) /\ Len(blocks') = Len(blocks) + Len(list)
          /\ \A k \in 1..Len(blocks) : blocks'[k] = blocks[k]
          /\ \A k \in (Len(blocks) + 1)..(Len(blocks) + Len(list)) :
               blocks'[k] = list[k - Len(blocks)]
          /\ Len(blocks) \in Nat /\ Len(list) \in Nat /\ Len(sections) \in Nat
      BY <2>1, <3>1 DEF DocInv, DTypeOK
    <3>3. \A k \in 1..Len(blocks') : blocks'[k] = Len(sections) + k
      <4> TAKE k \in 1..Len(blocks')
      <4>1. CASE k \in 1..Len(blocks)
        BY <3>2, <4>1 DEF DocInv, Numbered
      <4>2. CASE k \in (Len(blocks) + 1)..(Len(blocks) + Len(list))
        <5>1. k - Len(blocks) \in 1..Len(list)
          BY <3>2, <4>2
        <5>2. list[k - Len(blocks)] = Len(sections) + Len(blocks) + (k - Len(blocks))
          BY <5>1 DEF DocInv, Numbered
        <5> QED BY <3>2, <4>2, <5>2
      <4> QED BY <3>2, <4>1, <4>2
    <3>4. Numbered'
      <4>1. Len(told') = Len(sections') + Len(blocks') + Len(list')
        BY <2>1, <3>1, <3>2 DEF DocInv, Numbered
      <4> QED BY <2>1, <3>1, <3>3, <4>1 DEF DocInv, Numbered
    <3>5. DTypeOK' /\ Listed' /\ Nested' /\ Ancestry'
      <4>1. DTypeOK' /\ Listed'
        BY <2>1, <3>1, <3>2 DEF DocInv, DTypeOK, Listed
      <4>2. Nested' /\ Ancestry'
        BY <2>1, <3>1, <3>2, NestedFrame DEF DocInv, Ancestry
      <4> QED BY <4>1, <4>2
    <3> QED BY <3>4, <3>5 DEF DocInv
  <2> QED BY <2>2, <2>3
<1>7. CASE UNCHANGED dvars
  <2>1. DTypeOK' /\ Listed'
    BY <1>7 DEF dvars, DocInv, DTypeOK, Listed
  <2>2. Numbered' /\ Nested' /\ Ancestry'
    BY <1>7, NestedFrame DEF dvars, DocInv, Numbered, Ancestry
  <2> QED BY <2>1, <2>2 DEF DocInv
<1> QED BY <1>1, <1>2, <1>3, <1>4, <1>5, <1>6, <1>7 DEF DNext

LEMMA DocHolds == {"leaps", "nested"} \cap Beyond = {} => (DSpec => []DocInv)
<1> SUFFICES ASSUME "leaps" \notin Beyond, "nested" \notin Beyond PROVE DSpec => []DocInv
  OBVIOUS
<1>1. DocInv /\ [DNext]_dvars => DocInv'
  BY DocSteps
<1> QED BY DocInit, <1>1, PTL DEF DSpec

\* TextKept: a source of any length keeps each of its texts, once and in order,
\* unless a list holds a leaf of its own or a heading leaps a level.
THEOREM TextsKept == {"leaps", "nested"} \cap Beyond = {} => (DSpec => []TextKept)
<1> SUFFICES ASSUME {"leaps", "nested"} \cap Beyond = {} PROVE DSpec => []TextKept
  OBVIOUS
<1>1. DSpec => []DocInv
  BY DocHolds
<1>2. DocInv => TextKept
  <2>1. DocInv /\ source = "ended" => Len(told) = Len(sections)
    BY DEF DocInv, DTypeOK, Numbered, Listed
  <2> QED BY <2>1 DEF DocInv, Numbered, TextKept
<1> QED BY <1>1, <1>2, PTL

\* UnderItsHeadings: and each is cited under the headings it stands under.
THEOREM CitedUnderHeadings ==
  {"leaps", "nested"} \cap Beyond = {} => (DSpec => []UnderItsHeadings)
<1> SUFFICES ASSUME {"leaps", "nested"} \cap Beyond = {} PROVE DSpec => []UnderItsHeadings
  OBVIOUS
<1>1. DSpec => []DocInv
  BY DocHolds
<1>2. DocInv => UnderItsHeadings
  BY DEF DocInv, Numbered, Ancestry, Under, UnderItsHeadings
<1> QED BY <1>1, <1>2, PTL


-----------------------------------------------------------------------------
(* Sentences *)

Spaced(k) == Space(k) \/ \E s \in said : k \in s[1]..s[2]
\* The sentences said lie before the one begun, which no terminator ends yet.
SentInv ==
  /\ Len(text) \in Nat /\ pos \in 1..(Len(text) + 2) /\ from \in 1..(Len(text) + 1)
  /\ \A s \in said : /\ s[1] \in 1..Len(text) /\ s[2] \in 1..Len(text)
                     /\ s[2] = Len(text) \/ Ends(s[2])
                     /\ \A k \in s[1]..(s[2] - 1) : ~Ends(k)
  /\ \A s \in said, r \in said : s[2] < r[1] \/ r[2] < s[1] \/ s = r
  /\ pos <= Len(text) + 1 =>
       /\ from <= pos /\ \A k \in from..(pos - 1) : ~Ends(k)
       /\ \A s \in said : s[2] < from
       /\ \A k \in 1..(from - 1) : Spaced(k)
  /\ pos > Len(text) + 1 => \A k \in 1..Len(text) : Spaced(k)

LEMMA SentInit == SInit => SentInv
  BY SentencesAssumption DEF SInit, SentInv

LEMMA SameText ==
  ASSUME text' = text
  PROVE  \A k : (Ends(k)' <=> Ends(k)) /\ (Space(k)' <=> Space(k))
  BY DEF Ends, Space, Is, Abbreviation, WordBefore, Alnum, Initialism, Alone

\* A sentence is said that begins where the last one left off.
LEMMA SaidStep ==
  ASSUME SentInv, NEW t \in from..Len(text), said' = Said(from, t), text' = text,
         pos <= Len(text) + 1, t = Len(text) \/ Ends(t),
         \A k \in from..(t - 1) : ~Ends(k)
  PROVE  /\ \A s \in said' : /\ s[1] \in 1..Len(text') /\ s[2] \in 1..Len(text')
                             /\ s[2] = Len(text') \/ Ends(s[2])'
                             /\ \A k \in s[1]..(s[2] - 1) : ~Ends(k)'
         /\ \A s \in said', r \in said' : s[2] < r[1] \/ r[2] < s[1] \/ s = r
         /\ \A s \in said' : s[2] <= t
         /\ \A k \in 1..t : Spaced(k)'
<1>1. /\ Len(text) \in Nat /\ from \in 1..(Len(text) + 1) /\ t \in 1..Len(text) /\ from <= t
      /\ \A s \in said : s[1] \in 1..Len(text) /\ s[2] \in 1..Len(text) /\ s[2] < from
  BY DEF SentInv
<1>2. ASSUME NEW s \in said'
      PROVE  s \in said \/ (s = <<from, t>> /\ s[1] = from /\ s[2] = t)
  BY DEF Said
<1>3. ASSUME NEW s \in said'
      PROVE  /\ s[1] \in 1..Len(text') /\ s[2] \in 1..Len(text') /\ s[2] <= t
             /\ s[2] = Len(text') \/ Ends(s[2])'
             /\ \A k \in s[1]..(s[2] - 1) : ~Ends(k)'
  <2>1. CASE s \in said
    <3>1. /\ s[1] \in 1..Len(text) /\ s[2] \in 1..Len(text)
          /\ s[2] = Len(text) \/ Ends(s[2])
          /\ \A k \in s[1]..(s[2] - 1) : ~Ends(k)
      BY <2>1 DEF SentInv
    <3>2. s[2] <= t
      BY <1>1, <2>1
    <3> QED BY <3>1, <3>2, SameText
  <2>2. CASE s[1] = from /\ s[2] = t
    BY <1>1, <2>2, SameText
  <2> QED BY <1>2, <2>1, <2>2
<1>4. ASSUME NEW s \in said', NEW r \in said' PROVE s[2] < r[1] \/ r[2] < s[1] \/ s = r
  <2>1. CASE s \in said /\ r \in said
    BY <2>1 DEF SentInv
  <2>2. CASE s = <<from, t>> \/ r = <<from, t>>
    <3>1. \A x \in said : x[2] < from
      BY <1>1
    <3>2. (s = <<from, t>> => s[1] = from) /\ (r = <<from, t>> => r[1] = from)
      OBVIOUS
    <3> QED BY <1>2, <2>2, <3>1, <3>2
  <2> QED BY <1>2, <2>1, <2>2
<1>5. ASSUME NEW k \in 1..t PROVE Spaced(k)'
  <2>1. CASE k \in 1..(from - 1)
    <3>1. Space(k) \/ \E s \in said : k \in s[1]..s[2]
      BY <1>1, <2>1 DEF SentInv, Spaced
    <3>2. said \subseteq said'
      BY DEF Said
    <3> QED BY <3>1, <3>2, SameText DEF Spaced
  <2>2. CASE k \in from..t
    <3>1. CASE Space(k)
      BY <3>1, SameText DEF Spaced
    <3>2. CASE ~Space(k)
      <4>1. <<from, t>> \in said'
        BY <2>2, <3>2 DEF Said
      <4>2. <<from, t>>[1] = from /\ <<from, t>>[2] = t
        OBVIOUS
      <4> QED BY <2>2, <4>1, <4>2 DEF Spaced
    <3> QED BY <3>1, <3>2
  <2> QED BY <1>1, <2>1, <2>2
<1> QED BY <1>3, <1>4, <1>5

LEMMA SentStep == ASSUME SentInv, [SNext]_svars PROVE SentInv'
<1>1. CASE Pass
  <2>1. /\ pos \in 1..Len(text) /\ pos' = pos + 1 /\ ~Ends(pos) /\ Len(text) \in Nat
        /\ text' = text /\ from' = from /\ said' = said /\ from \in 1..(Len(text) + 1)
    BY <1>1 DEF Pass, SentInv
  <2>2. from <= pos' /\ \A k \in from..(pos' - 1) : ~Ends(k)
    <3>1. \A k \in from..(pos' - 1) : k = pos \/ k \in from..(pos - 1)
      BY <2>1
    <3> QED BY <2>1, <3>1 DEF SentInv
  <2>3. \A k : Spaced(k)' <=> Spaced(k)
    BY <2>1, SameText DEF Spaced
  <2>4. pos <= Len(text) + 1 /\ pos' <= Len(text') + 1 /\ pos' \in 1..(Len(text') + 2)
    BY <2>1
  <2> QED BY <2>1, <2>2, <2>3, <2>4, SameText DEF SentInv
<1>2. CASE CutSentence
  <2>1. /\ pos \in 1..Len(text) /\ Ends(pos) /\ Len(text) \in Nat
        /\ text' = text /\ said' = Said(from, pos) /\ from \in 1..(Len(text) + 1)
        /\ pos \in from..Len(text) /\ \A k \in from..(pos - 1) : ~Ends(k)
    BY <1>2 DEF CutSentence, SentInv
  <2>2. PICK j \in (pos + 1)..(Len(text) + 1) :
          pos' = j /\ from' = j /\ \A k \in (pos + 1)..(j - 1) : Space(k)
    BY <1>2 DEF CutSentence, NextWord
  <2>3. /\ \A s \in said' : /\ s[1] \in 1..Len(text') /\ s[2] \in 1..Len(text')
                            /\ s[2] = Len(text') \/ Ends(s[2])'
                            /\ \A k \in s[1]..(s[2] - 1) : ~Ends(k)'
        /\ \A s \in said', r \in said' : s[2] < r[1] \/ r[2] < s[1] \/ s = r
        /\ \A s \in said' : s[2] <= pos
        /\ \A k \in 1..pos : Spaced(k)'
    BY <2>1, SaidStep
  <2>4. \A s \in said' : s[2] < from'
    BY <2>1, <2>2, <2>3
  <2>5. \A k \in 1..(from' - 1) : Spaced(k)'
    <3>1. \A k \in (pos + 1)..(j - 1) : Spaced(k)'
      BY <2>1, <2>2, SameText DEF Spaced
    <3> QED BY <2>1, <2>2, <2>3, <3>1
  <2>6. /\ pos' \in 1..(Len(text') + 2) /\ from' \in 1..(Len(text') + 1) /\ from' <= pos'
        /\ pos' <= Len(text') + 1 /\ from'..(pos' - 1) = {}
    BY <2>1, <2>2
  <2>7. /\ Len(text') \in Nat /\ \A k \in from'..(pos' - 1) : ~Ends(k)'
        /\ ~(pos' > Len(text') + 1)
    <3>1. Len(text') \in Nat /\ ~(pos' > Len(text') + 1)
      BY <2>1, <2>6
    <3>2. \A k \in from'..(pos' - 1) : ~Ends(k)'
      BY <2>6
    <3> QED BY <3>1, <3>2
  <2> QED BY <2>3, <2>4, <2>5, <2>6, <2>7 DEF SentInv
<1>3. CASE Remainder
  <2>1. /\ pos = Len(text) + 1 /\ pos' = pos + 1 /\ text' = text /\ from' = from
        /\ Len(text) \in Nat /\ from \in 1..(Len(text) + 1)
    BY <1>3 DEF Remainder, SentInv
  <2>2. pos' > Len(text') + 1 /\ pos' \in 1..(Len(text') + 2)
    BY <2>1
  <2>3. CASE from <= Len(text)
    <3>1. /\ said' = Said(from, Len(text)) /\ Len(text) \in from..Len(text)
          /\ \A k \in from..(Len(text) - 1) : ~Ends(k)
      BY <1>3, <2>1, <2>3 DEF Remainder, SentInv
    <3>2. /\ \A s \in said' : /\ s[1] \in 1..Len(text') /\ s[2] \in 1..Len(text')
                              /\ s[2] = Len(text') \/ Ends(s[2])'
                              /\ \A k \in s[1]..(s[2] - 1) : ~Ends(k)'
          /\ \A s \in said', r \in said' : s[2] < r[1] \/ r[2] < s[1] \/ s = r
          /\ \A k \in 1..Len(text) : Spaced(k)'
      BY <2>1, <3>1, SaidStep
    <3> QED BY <2>1, <2>2, <3>2 DEF SentInv
  <2>4. CASE from > Len(text)
    <3>1. said' = said /\ from = Len(text) + 1
      BY <1>3, <2>1, <2>4 DEF Remainder
    <3>2. \A k : Spaced(k)' <=> Spaced(k)
      BY <2>1, <3>1, SameText DEF Spaced
    <3>3. \A k \in 1..Len(text) : Spaced(k)
      BY <2>1, <3>1 DEF SentInv
    <3> QED BY <2>1, <2>2, <3>1, <3>2, <3>3, SameText DEF SentInv
  <2> QED BY <2>1, <2>3, <2>4
<1>4. CASE UNCHANGED svars
  <2>1. UNCHANGED <<text, pos, from, said>>
    BY <1>4 DEF svars
  <2>2. \A k : Spaced(k)' <=> Spaced(k)
    BY <2>1, SameText DEF Spaced
  <2> QED BY <2>1, <2>2, SameText DEF SentInv
<1> QED BY <1>1, <1>2, <1>3, <1>4 DEF SNext

\* SentencesWhole: for a paragraph of any length, whatever its letters and the
\* list of abbreviations.
THEOREM SentencesAreWhole == SSpec => []SentencesWhole
<1>1. SentInv => SentencesWhole
  BY DEF SentInv, SentencesWhole, Spaced
<1> QED BY SentInit, SentStep, <1>1, PTL DEF SSpec


-----------------------------------------------------------------------------
(* Chunks. The loops of chunk.rs stay within their block, no chunk outgrows the
   embedder, and nothing of a block is lost. *)

\* Where the loops are: within the block, and within the words of its items.
Placed ==
  /\ pc # "done" => i \in 1..n /\ to \in i..n
  /\ pc = "walk" => to = i
  /\ pc = "overlap" => back \in i..to
  /\ pc = "split" => w \in 1..(Len(Items(i, to)) + 1) /\ cur \in 0..(w - 1)
  /\ pc = "chars" => w \in 1..Len(Items(i, to)) /\ cur = 0 /\ c <= d

\* What the next chunk emitted is already known to be.
Fits ==
  /\ pc = "grow" /\ block.kind # "table" => Count(i, to) <= Ceiling
  /\ pc = "split" /\ cur # 0 => Of(i, to, cur, w - 1) <= Ceiling
  /\ pc = "chars" /\ c # d => Tokens(<<d - c + 1>>) <= Ceiling

\* What is in a chunk already.
Behind(k) == k < i \/ pc = "done" \/ (pc = "overlap" /\ k <= to)
Held ==
  /\ \A k \in 1..n : Behind(k) => ItemHeld(k)
  /\ pc \in {"split", "chars"} =>
       \A j \in 1..Len(Items(i, to)) :
         j < w /\ (cur = 0 \/ j < cur) => WordHeld(i, to, j)
  /\ pc = "chars" =>
       \A x \in 1..Items(i, to)[w] : x < c => CharHeld(i, to, w, x)

\* What is said of a block by the assumption, for the block in hand.
LEMMA BlockFacts ==
  ASSUME TypeOK
  PROVE  /\ n \in Nat
         /\ block.kind \in {"paragraph", "table", "code"}
         /\ block.kind = "code" => n = 1
         /\ \A f \in 1..n, t \in 1..n :
              Items(f, t) \in Seq(Nat) /\ Count(f, t) \in Nat
         /\ Target \in Nat /\ Ceiling \in Nat /\ EffectiveTarget \in Nat
         /\ EffectiveTarget <= Ceiling
<1>1. /\ block \in Blocks
      /\ Target \in Nat /\ Ceiling \in Nat
  BY ChunkingAssumption DEF TypeOK
<1>2. /\ n \in Nat
      /\ block.kind \in {"paragraph", "table", "code"}
      /\ block.kind = "code" => n = 1
      /\ \A f \in 1..n, t \in 1..n :
           Items(f, t) \in Seq(Nat) /\ Count(f, t) \in Nat
  BY <1>1, ChunkingAssumption DEF n, Items, Count
<1>3. QED
  BY <1>1, <1>2 DEF EffectiveTarget

LEMMA Initially == Init => TypeOK /\ Placed /\ Fits /\ WithinCeiling /\ Held
<1>1. SUFFICES ASSUME Init PROVE TypeOK /\ Placed /\ Fits /\ WithinCeiling /\ Held
  OBVIOUS
<1>2. TypeOK
  BY <1>1 DEF Init, TypeOK
<1>3. n \in Nat
  BY <1>2, BlockFacts
<1>4. Placed /\ Fits /\ WithinCeiling
  BY <1>1, <1>3 DEF Init, Placed, Fits, WithinCeiling, n
<1>5. Held
  BY <1>1, <1>3 DEF Init, Held, Behind, n
<1>6. QED
  BY <1>2, <1>4, <1>5

-----------------------------------------------------------------------------
\* Each step keeps the loops within their bounds.
LEMMA PushPlaced ==
  ASSUME TypeOK, Placed, pc \in {"walk", "grow"}, Push,
         UNCHANGED block
  PROVE  /\ pc' \in {"walk", "split", "done"} /\ i' \in Nat \ {0} /\ to' \in Nat \ {0}
         /\ w' \in Nat \ {0} /\ cur' \in Nat
         /\ Placed'
<1>1. n \in Nat /\ i \in 1..n /\ to \in i..n /\ Items(i, to) \in Seq(Nat)
  BY BlockFacts DEF Placed
<1>2. CASE Count(i, to) <= Ceiling
  BY <1>1, <1>2 DEF Push, Advance, Placed, TypeOK, n
<1>3. CASE ~(Count(i, to) <= Ceiling)
  <2>1. pc' = "split" /\ w' = 1 /\ cur' = 0 /\ i' = i /\ to' = to
    BY <1>3 DEF Push, StartSplit
  <2>2. Items(i, to)' = Items(i, to)
    BY <2>1 DEF Items
  <2>3. Placed'
    BY <1>1, <2>1, <2>2 DEF Placed, n
  <2>4. QED
    BY <1>1, <2>1, <2>3
<1>4. QED
  BY <1>2, <1>3

LEMMA StepPlaced == TypeOK /\ Placed /\ [Next]_vars => TypeOK' /\ Placed'
<1>1. SUFFICES ASSUME TypeOK, Placed, [Next]_vars PROVE TypeOK' /\ Placed'
  OBVIOUS
<1>2. n \in Nat
  BY <1>1, BlockFacts
<1>3. CASE Walk
  <2>1. pc = "walk" /\ block' = block /\ back' = back /\ c' = c /\ d' = d
    BY <1>3 DEF Walk
  <2>2. i \in 1..n /\ to = i
    BY <1>1, <2>1 DEF Placed
  <2>3. CASE pc' = "grow" /\ UNCHANGED <<i, to, w, cur, out, last>>
    BY <1>1, <1>2, <2>1, <2>2, <2>3 DEF Placed, TypeOK, n
  <2>4. CASE Push
    <3>1. /\ pc' \in {"walk", "split", "done"} /\ i' \in Nat \ {0}
          /\ to' \in Nat \ {0} /\ w' \in Nat \ {0} /\ cur' \in Nat /\ Placed'
      BY <1>1, <2>1, <2>4, PushPlaced
    <3>2. QED
      BY <1>1, <2>1, <3>1 DEF TypeOK
  <2>5. QED
    BY <1>3, <2>3, <2>4 DEF Walk
<1>4. CASE Grow
  <2>1. pc = "grow" /\ block' = block /\ c' = c /\ d' = d
    BY <1>4 DEF Grow
  <2>2. i \in 1..n /\ to \in i..n
    BY <1>1, <2>1 DEF Placed
  <2>3. CASE to < n /\ to' = to + 1 /\ UNCHANGED <<pc, i, back, w, cur, out, last>>
    BY <1>1, <1>2, <2>1, <2>2, <2>3 DEF Placed, TypeOK, n
  <2>4. CASE Push /\ UNCHANGED back
    <3>1. /\ pc' \in {"walk", "split", "done"} /\ i' \in Nat \ {0}
          /\ to' \in Nat \ {0} /\ w' \in Nat \ {0} /\ cur' \in Nat /\ Placed'
      BY <1>1, <2>1, <2>4, PushPlaced
    <3>2. QED
      BY <1>1, <2>1, <2>4, <3>1 DEF TypeOK
  <2>5. CASE /\ pc' = IF to = n THEN "done" ELSE "overlap"
             /\ back' = to /\ UNCHANGED <<i, to, w, cur>>
    BY <1>1, <1>2, <2>1, <2>2, <2>5 DEF Placed, TypeOK, n
  <2>6. QED
    BY <1>4, <2>3, <2>4, <2>5 DEF Grow
<1>5. CASE CarryBack
  <2>1. /\ pc = "overlap"
        /\ block' = block /\ w' = w /\ cur' = cur /\ c' = c /\ d' = d
    BY <1>5 DEF CarryBack
  <2>2. i \in 1..n /\ to \in i..n /\ back \in i..to
    BY <1>1, <2>1 DEF Placed
  <2>3. CASE back # i /\ back' = back - 1 /\ UNCHANGED <<pc, i, to>>
    BY <1>1, <1>2, <2>1, <2>2, <2>3 DEF Placed, TypeOK, n
  <2>4. CASE Advance(IF back > i THEN back ELSE i + 1) /\ UNCHANGED back
    BY <1>1, <1>2, <2>1, <2>2, <2>4 DEF Advance, Placed, TypeOK, n
  <2>5. QED
    BY <1>5, <2>3, <2>4 DEF CarryBack
<1>6. CASE Split
  <2>1. /\ pc = "split" /\ w <= Len(Items(i, to))
        /\ block' = block /\ i' = i /\ to' = to /\ back' = back
    BY <1>6 DEF Split
  <2>2. i \in 1..n /\ to \in i..n /\ cur \in 0..(w - 1) /\ w \in 1..Len(Items(i, to))
        /\ Len(Items(i, to)) \in Nat
    BY <1>1, <1>2, <2>1, BlockFacts DEF Placed
  <2>3. Items(i, to)' = Items(i, to) /\ n' = n
    BY <2>1 DEF Items, n
  <2>4. \/ /\ cur' \in {w, cur} \ {0} /\ w' = w + 1 /\ UNCHANGED <<pc, c, d>>
        \/ cur' = 0 /\ pc' = "chars" /\ c' = 1 /\ d' = 1 /\ UNCHANGED w
    BY <1>6, <2>2 DEF Split
  <2>5. QED
    BY <1>1, <1>2, <2>1, <2>2, <2>3, <2>4 DEF Placed, TypeOK
<1>7. CASE SplitEnds
  <2>1. /\ pc = "split" /\ Advance(to + 1)
        /\ block' = block /\ back' = back /\ w' = w /\ cur' = cur /\ c' = c /\ d' = d
    BY <1>7 DEF SplitEnds
  <2>2. i \in 1..n /\ to \in i..n
    BY <1>1, <2>1 DEF Placed
  <2>3. QED
    BY <1>1, <1>2, <2>1, <2>2 DEF Advance, Placed, TypeOK, n
<1>8. CASE SplitWord
  <2>1. /\ pc = "chars" /\ block' = block /\ i' = i /\ to' = to /\ back' = back
        /\ cur' = cur
    BY <1>8 DEF SplitWord
  <2>2. /\ i \in 1..n /\ to \in i..n /\ cur = 0 /\ w \in 1..Len(Items(i, to))
        /\ Len(Items(i, to)) \in Nat /\ c <= d
    BY <1>1, <1>2, <2>1, BlockFacts DEF Placed
  <2>3. Items(i, to)' = Items(i, to) /\ n' = n
    BY <2>1 DEF Items, n
  <2>4. \/ d' = d + 1 /\ UNCHANGED <<pc, w, c>>
        \/ c' = d + 1 /\ d' = d + 1 /\ UNCHANGED <<pc, w>>
        \/ c' = d + 1 /\ d' = d + 1 /\ pc' = "split" /\ w' = w + 1
    BY <1>8 DEF SplitWord
  <2>5. QED
    BY <1>1, <1>2, <2>1, <2>2, <2>3, <2>4 DEF Placed, TypeOK
<1>9. CASE UNCHANGED vars
  BY <1>1, <1>9 DEF vars, TypeOK, Placed, n, Items
<1>10. QED
  BY <1>1, <1>3, <1>4, <1>5, <1>6, <1>7, <1>8, <1>9 DEF Next

-----------------------------------------------------------------------------
\* Each step emits only what fits.
LEMMA EmitFits ==
  ASSUME WithinCeiling, NEW k, k.tokens <= Ceiling \/ \E x \in k.chars : k.chars = {x},
         Emit(k)
  PROVE  WithinCeiling'
BY DEF WithinCeiling, Emit

LEMMA PushFits ==
  ASSUME TypeOK, Placed, Fits, WithinCeiling, pc \in {"walk", "grow"}, Push,
         UNCHANGED block
  PROVE  Fits' /\ WithinCeiling'
<1>1. CASE Count(i, to) <= Ceiling
  <2>1. pc' # "grow" /\ pc' # "split" /\ pc' # "chars"
    BY <1>1 DEF Push, Advance
  <2>2. Emit(Chunk(i, to, {}, {}, Count(i, to)))
    BY <1>1 DEF Push
  <2>3. WithinCeiling'
    BY <1>1, <2>2, EmitFits DEF Chunk
  <2>4. QED
    BY <2>1, <2>3 DEF Fits
<1>2. CASE ~(Count(i, to) <= Ceiling)
  <2>1. pc' = "split" /\ cur' = 0 /\ out' = out
    BY <1>2 DEF Push, StartSplit
  <2>2. QED
    BY <2>1 DEF Fits, WithinCeiling
<1>3. QED
  BY <1>1, <1>2

LEMMA FlushFits ==
  ASSUME Fits, WithinCeiling, pc = "split", Flush
  PROVE  WithinCeiling'
<1>1. CASE cur = 0
  BY <1>1 DEF Flush, WithinCeiling
<1>2. CASE cur # 0
  <2>1. Emit(Piece(cur, w - 1)) /\ Of(i, to, cur, w - 1) <= Ceiling
    BY <1>2 DEF Flush, Fits
  <2>2. QED
    BY <2>1, EmitFits DEF Piece, Chunk
<1>3. QED
  BY <1>1, <1>2

LEMMA StepFits ==
  TypeOK /\ Placed /\ Fits /\ WithinCeiling /\ [Next]_vars => Fits' /\ WithinCeiling'
<1>1. SUFFICES ASSUME TypeOK, Placed, Fits, WithinCeiling, [Next]_vars
               PROVE  Fits' /\ WithinCeiling'
  OBVIOUS
<1>2. /\ n \in Nat /\ Ceiling \in Nat
      /\ EffectiveTarget \in Nat /\ EffectiveTarget <= Ceiling
      /\ \A f \in 1..n, t \in 1..n : Count(f, t) \in Nat
  BY <1>1, BlockFacts
<1>3. CASE Walk
  <2>1. pc = "walk" /\ block' = block
    BY <1>3 DEF Walk
  <2>2. CASE /\ block.kind = "paragraph" => Count(i, i) <= EffectiveTarget
             /\ pc' = "grow" /\ UNCHANGED <<i, to, w, cur, out, last>>
    <3>1. i \in 1..n /\ to = i /\ block.kind \in {"paragraph", "table", "code"}
      BY <1>1, <2>1, BlockFacts DEF Placed
    <3>2. block.kind = "paragraph" => Count(i, to) <= Ceiling
      BY <1>2, <2>2, <3>1
    <3>3. Count(i, to)' = Count(i, to)
      BY <2>1, <2>2 DEF Count, Items
    <3>4. WithinCeiling'
      BY <1>1, <2>2 DEF WithinCeiling
    <3>5. block.kind # "table" => block.kind = "paragraph"
      BY <1>3, <2>1, <2>2, <3>1 DEF Walk, Push, Advance, StartSplit
    <3>6. QED
      BY <2>1, <2>2, <3>2, <3>3, <3>4, <3>5 DEF Fits
  <2>3. CASE Push
    BY <1>1, <2>1, <2>3, PushFits
  <2>4. QED
    BY <1>3, <2>2, <2>3 DEF Walk
<1>4. CASE Grow
  <2>1. pc = "grow" /\ block' = block
    BY <1>4 DEF Grow
  <2>2. i \in 1..n /\ to \in i..n
    BY <1>1, <2>1 DEF Placed
  <2>3. CASE /\ to < n /\ Count(i, to + 1) <= GroupTarget /\ to' = to + 1
             /\ UNCHANGED <<pc, i, back, w, cur, out, last>>
    <3>1. Count(i, to)' = Count(i, to + 1)
      BY <2>1, <2>3 DEF Count, Items
    <3>2. Count(i, to + 1) \in Nat
      BY <1>2, <2>2, <2>3
    <3>3. block.kind # "table" => Count(i, to + 1) <= Ceiling
      BY <1>2, <2>3, <3>2 DEF GroupTarget
    <3>4. WithinCeiling'
      BY <1>1, <2>3 DEF WithinCeiling
    <3>5. QED
      BY <2>1, <2>3, <3>1, <3>3, <3>4 DEF Fits
  <2>4. CASE Push
    BY <1>1, <2>1, <2>4, PushFits
  <2>5. CASE /\ block.kind # "table" /\ Emit(Chunk(i, to, {}, {}, Count(i, to)))
             /\ pc' = IF to = n THEN "done" ELSE "overlap"
    <3>1. Count(i, to) <= Ceiling
      BY <1>1, <2>1, <2>5 DEF Fits
    <3>2. WithinCeiling'
      BY <1>1, <2>5, <3>1, EmitFits DEF Chunk
    <3>3. QED
      BY <2>5, <3>2 DEF Fits
  <2>6. QED
    BY <1>4, <2>3, <2>4, <2>5 DEF Grow
<1>5. CASE CarryBack
  <2>1. pc' \in {"overlap", "walk", "done"} /\ out' = out
    BY <1>5 DEF CarryBack, Advance
  <2>2. QED
    BY <1>1, <2>1 DEF Fits, WithinCeiling
<1>6. CASE Split
  <2>1. /\ pc = "split" /\ block' = block /\ i' = i /\ to' = to
        /\ w \in Nat \ {0} /\ cur \in Nat
    BY <1>1, <1>6 DEF Split, TypeOK
  <2>2. Of(i, to, cur, w - 1)' = Of(i, to, cur', w' - 1)
    BY <2>1 DEF Of, Items
  <2>3. DEFINE first == IF cur = 0 THEN w ELSE cur
  <2>4. CASE /\ Of(i, to, first, w) <= Ceiling
             /\ cur' = first /\ w' = w + 1 /\ UNCHANGED <<pc, c, d, out, last>>
    <3>1. Of(i, to, cur, w - 1)' <= Ceiling
      BY <2>1, <2>2, <2>4
    <3>2. QED
      BY <1>1, <2>1, <2>4, <3>1 DEF Fits, WithinCeiling
  <2>5. CASE /\ Flush /\ Of(i, to, w, w) <= Ceiling
             /\ cur' = w /\ w' = w + 1 /\ UNCHANGED <<pc, c, d>>
    <3>1. Of(i, to, cur, w - 1)' <= Ceiling
      BY <2>1, <2>2, <2>5
    <3>2. WithinCeiling'
      BY <1>1, <2>1, <2>5, FlushFits
    <3>3. QED
      BY <2>1, <2>5, <3>1, <3>2 DEF Fits
  <2>6. CASE Flush /\ cur' = 0 /\ pc' = "chars" /\ c' = 1 /\ d' = 1
    <3>1. WithinCeiling'
      BY <1>1, <2>1, <2>6, FlushFits
    <3>2. QED
      BY <2>6, <3>1 DEF Fits
  <2>7. QED
    BY <1>6, <2>4, <2>5, <2>6 DEF Split
<1>7. CASE SplitEnds
  <2>1. pc = "split" /\ Flush /\ pc' \in {"walk", "done"}
    BY <1>7 DEF SplitEnds, Advance
  <2>2. WithinCeiling'
    BY <1>1, <2>1, FlushFits
  <2>3. QED
    BY <2>1, <2>2 DEF Fits
<1>8. CASE SplitWord
  <2>1. /\ pc = "chars" /\ c \in Nat /\ d \in Nat /\ c <= d /\ cur = 0 /\ cur' = cur
    BY <1>1, <1>8 DEF SplitWord, Placed, TypeOK
  <2>2. CASE /\ Tokens(<<d - c + 2>>) <= Ceiling
             /\ d' = d + 1 /\ UNCHANGED <<pc, w, c, out, last>>
    <3>1. (d - c + 1)' = d - c + 2
      BY <2>1, <2>2
    <3>2. QED
      BY <1>1, <2>1, <2>2, <3>1 DEF Fits, WithinCeiling
  <2>3. CASE /\ Emit(Chunk(i, to, {w}, c..d, Tokens(<<d - c + 1>>)))
             /\ c' = d + 1 /\ d' = d + 1
             /\ pc' \in {"chars", "split"}
    <3>1. c = d => c..d = {c}
      BY <2>1
    <3>2. Tokens(<<d - c + 1>>) <= Ceiling \/ c..d = {c}
      BY <1>1, <2>1, <3>1 DEF Fits
    <3>3. WithinCeiling'
      BY <1>1, <2>3, <3>2, EmitFits DEF Chunk
    <3>4. QED
      BY <2>1, <2>3, <3>3 DEF Fits
  <2>4. QED
    BY <1>8, <2>1, <2>2, <2>3 DEF SplitWord
<1>9. CASE UNCHANGED vars
  BY <1>1, <1>9 DEF vars, Fits, WithinCeiling, Count, Items, Of
<1>10. QED
  BY <1>1, <1>3, <1>4, <1>5, <1>6, <1>7, <1>8, <1>9 DEF Next

\* No chunk outgrows the embedder, whatever the blocks, the tokenizer and the
\* configuration.
THEOREM ChunksFit == Spec => []WithinCeiling
<1>1. Init => TypeOK /\ Placed /\ Fits /\ WithinCeiling
  BY Initially
<1>2. TypeOK /\ Placed /\ Fits /\ WithinCeiling /\ [Next]_vars
        => (TypeOK /\ Placed /\ Fits /\ WithinCeiling)'
  BY StepPlaced, StepFits
<1>3. QED
  BY <1>1, <1>2, PTL DEF Spec

-----------------------------------------------------------------------------
\* What is held stays held while chunks are only added.
LEMMA StaysHeld ==
  ASSUME UNCHANGED block, out \subseteq out'
  PROVE  /\ n' = n
         /\ \A f, t : Items(f, t)' = Items(f, t)
         /\ \A f, t, j, x : CharHeld(f, t, j, x) => CharHeld(f, t, j, x)'
         /\ \A f, t, j : WordHeld(f, t, j) => WordHeld(f, t, j)'
         /\ \A k : ItemHeld(k) => ItemHeld(k)'
<1>1. n' = n /\ \A f, t : Items(f, t)' = Items(f, t)
  BY DEF n, Items
<1>2. \A f, t, j, x : CharHeld(f, t, j, x) => CharHeld(f, t, j, x)'
  BY DEF CharHeld
<1>3. \A f, t, j : WordHeld(f, t, j) => WordHeld(f, t, j)'
  BY <1>1, <1>2 DEF WordHeld
<1>4. \A f, t : Whole(f, t) => Whole(f, t)'
  BY DEF Whole
<1>5. \A k : ItemHeld(k) => ItemHeld(k)'
  BY <1>1, <1>3, <1>4 DEF ItemHeld
<1>6. QED
  BY <1>1, <1>2, <1>3, <1>5

\* A chunk of the items i..to whole, and the turn to the next ones.
LEMMA WholeHeld ==
  ASSUME TypeOK, Placed, Held, pc # "done", UNCHANGED block,
         Emit(Chunk(i, to, {}, {}, Count(i, to)))
  PROVE  /\ \A k \in 1..n : k <= to => ItemHeld(k)'
         /\ out \subseteq out' /\ n' = n
<1>1. out \subseteq out' /\ Chunk(i, to, {}, {}, Count(i, to)) \in out'
  BY DEF Emit
<1>2. n \in Nat /\ i \in 1..n /\ to \in i..n
  BY BlockFacts DEF Placed
<1>3. n' = n /\ \A k : ItemHeld(k) => ItemHeld(k)'
  BY <1>1, StaysHeld
<1>4. ASSUME NEW f, NEW t, f = i, t = to PROVE Whole(f, t)'
  <2>1. \E k \in out' : k.from = f /\ k.to = t /\ k.words = {}
    BY <1>1, <1>4 DEF Chunk
  <2>2. QED
    BY <2>1 DEF Whole
<1>5. ASSUME NEW k \in 1..n, k <= to PROVE ItemHeld(k)'
  <2>1. CASE k < i
    BY <1>2, <1>3, <2>1 DEF Held, Behind
  <2>2. CASE i <= k
    <3>1. \E f \in 1..k, t \in k..n' : f = i /\ t = to
      BY <1>2, <1>3, <1>5, <2>2
    <3>2. QED
      BY <1>4, <3>1 DEF ItemHeld
  <2>3. QED
    BY <1>2, <2>1, <2>2
<1>6. QED
  BY <1>1, <1>3, <1>5

LEMMA PushHeld ==
  ASSUME TypeOK, Placed, Held, pc \in {"walk", "grow"}, Push, UNCHANGED block
  PROVE  Held'
<1>1. n \in Nat /\ i \in 1..n /\ to \in i..n
  BY BlockFacts DEF Placed
<1>2. CASE Count(i, to) <= Ceiling
  <2>1. Emit(Chunk(i, to, {}, {}, Count(i, to))) /\ Advance(to + 1)
    BY <1>2 DEF Push
  <2>2. n' = n /\ \A k \in 1..n : k <= to => ItemHeld(k)'
    BY <2>1, WholeHeld
  <2>3. /\ pc' = IF to + 1 > n THEN "done" ELSE "walk"
        /\ i' = to + 1
    BY <2>1 DEF Advance
  <2>4. \A k \in 1..n : Behind(k)' => ItemHeld(k)'
    BY <1>1, <2>2, <2>3 DEF Behind
  <2>5. QED
    BY <2>2, <2>3, <2>4 DEF Held
<1>3. CASE ~(Count(i, to) <= Ceiling)
  <2>1. pc' = "split" /\ w' = 1 /\ i' = i /\ to' = to /\ out' = out
    BY <1>3 DEF Push, StartSplit
  <2>2. n' = n /\ \A k : ItemHeld(k) => ItemHeld(k)'
    BY <2>1, StaysHeld
  <2>3. \A k \in 1..n : Behind(k)' => ItemHeld(k)'
    BY <2>1, <2>2 DEF Behind, Held
  <2>4. QED
    BY <2>1, <2>2, <2>3 DEF Held
<1>4. QED
  BY <1>2, <1>3

\* The piece begun, once flushed, holds its words.
LEMMA FlushHeld ==
  ASSUME TypeOK, Placed, Held, pc = "split", Flush, UNCHANGED block,
         NEW f, NEW t, f = i, t = to
  PROVE  /\ out \subseteq out'
         /\ \A j \in 1..Len(Items(i, to)) : j < w => WordHeld(f, t, j)'
<1>1. /\ w \in 1..(Len(Items(i, to)) + 1) /\ cur \in 0..(w - 1)
      /\ Len(Items(i, to)) \in Nat
  BY BlockFacts DEF Placed
<1>2. out \subseteq out'
  BY DEF Flush, Emit
<1>3. \A j : WordHeld(f, t, j) => WordHeld(f, t, j)'
  BY <1>2, StaysHeld
<1>4. CASE cur = 0
  BY <1>1, <1>2, <1>3, <1>4 DEF Held
<1>5. CASE cur # 0
  <2>1. Piece(cur, w - 1) \in out'
    BY <1>5 DEF Flush, Emit
  <2>2. ASSUME NEW j \in 1..Len(Items(i, to)), j < w PROVE WordHeld(f, t, j)'
    <3>1. CASE j < cur
      BY <1>1, <1>3, <2>2, <3>1 DEF Held
    <3>2. CASE j >= cur
      <4>1. j \in cur..(w - 1)
        BY <1>1, <2>2, <3>2
      <4>2. \E k \in out' : k.from = f /\ k.to = t /\ j \in k.words /\ k.chars = {}
        BY <2>1, <4>1 DEF Piece, Chunk
      <4>3. \A x : CharHeld(f, t, j, x)'
        BY <4>2 DEF CharHeld
      <4>4. QED
        BY <4>3 DEF WordHeld
    <3>3. QED
      BY <1>1, <3>1, <3>2
  <2>3. QED
    BY <1>2, <2>2
<1>6. QED
  BY <1>4, <1>5

LEMMA StepHeld == TypeOK /\ Placed /\ Held /\ [Next]_vars => Held'
<1>1. SUFFICES ASSUME TypeOK, Placed, Held, [Next]_vars PROVE Held'
  OBVIOUS
<1>2. n \in Nat
  BY <1>1, BlockFacts
<1>3. CASE Walk
  <2>1. pc = "walk" /\ block' = block
    BY <1>3 DEF Walk
  <2>2. CASE pc' = "grow" /\ UNCHANGED <<i, to, w, cur, out, last>>
    <3>1. n' = n /\ \A k : ItemHeld(k) => ItemHeld(k)'
      BY <2>1, <2>2, StaysHeld
    <3>2. QED
      BY <1>1, <2>1, <2>2, <3>1 DEF Held, Behind
  <2>3. CASE Push
    BY <1>1, <2>1, <2>3, PushHeld
  <2>4. QED
    BY <1>3, <2>2, <2>3 DEF Walk
<1>4. CASE Grow
  <2>1. pc = "grow" /\ block' = block
    BY <1>4 DEF Grow
  <2>2. i \in 1..n /\ to \in i..n
    BY <1>1, <2>1 DEF Placed
  <2>3. CASE to' = to + 1 /\ UNCHANGED <<pc, i, back, w, cur, out, last>>
    <3>1. n' = n /\ \A k : ItemHeld(k) => ItemHeld(k)'
      BY <2>1, <2>3, StaysHeld
    <3>2. QED
      BY <1>1, <2>1, <2>3, <3>1 DEF Held, Behind
  <2>4. CASE Push
    BY <1>1, <2>1, <2>4, PushHeld
  <2>5. CASE /\ Emit(Chunk(i, to, {}, {}, Count(i, to)))
             /\ pc' = (IF to = n THEN "done" ELSE "overlap")
             /\ UNCHANGED <<i, to, w, cur>>
    <3>1. n' = n /\ \A k \in 1..n : k <= to => ItemHeld(k)'
      BY <1>1, <2>1, <2>5, WholeHeld
    <3>2. \A k \in 1..n : Behind(k)' => ItemHeld(k)'
      BY <1>2, <2>2, <2>5, <3>1 DEF Behind
    <3>3. QED
      BY <2>5, <3>1, <3>2 DEF Held
  <2>6. QED
    BY <1>4, <2>3, <2>4, <2>5 DEF Grow
<1>5. CASE CarryBack
  <2>1. pc = "overlap" /\ block' = block /\ out' = out
    BY <1>5 DEF CarryBack
  <2>2. i \in 1..n /\ to \in i..n /\ back \in i..to
    BY <1>1, <2>1 DEF Placed
  <2>3. n' = n /\ \A k : ItemHeld(k) => ItemHeld(k)'
    BY <2>1, StaysHeld
  <2>4. \A k \in 1..n : k <= to => ItemHeld(k)'
    BY <1>1, <1>2, <2>1, <2>2, <2>3 DEF Held, Behind
  <2>5. CASE UNCHANGED <<pc, i, to>>
    BY <1>2, <2>1, <2>2, <2>3, <2>4, <2>5 DEF Held, Behind
  <2>6. CASE Advance(IF back > i THEN back ELSE i + 1)
    <3>1. /\ i' \in Nat /\ i' <= to + 1
          /\ pc' = IF i' > n THEN "done" ELSE "walk"
      BY <1>2, <2>2, <2>6 DEF Advance
    <3>2. \A k \in 1..n : Behind(k)' => ItemHeld(k)'
      BY <1>2, <2>2, <2>4, <3>1 DEF Behind
    <3>3. QED
      BY <2>3, <3>1, <3>2 DEF Held
  <2>7. QED
    BY <1>5, <2>5, <2>6 DEF CarryBack
<1>6. CASE Split
  <2>1. /\ pc = "split" /\ w <= Len(Items(i, to))
        /\ block' = block /\ i' = i /\ to' = to /\ back' = back
    BY <1>6 DEF Split
  <2>2. /\ cur \in 0..(w - 1) /\ w \in 1..Len(Items(i, to))
        /\ Len(Items(i, to)) \in Nat
    BY <1>1, <2>1, BlockFacts DEF Placed
  <2>3. CASE /\ cur' = (IF cur = 0 THEN w ELSE cur) /\ w' = w + 1
             /\ UNCHANGED <<pc, c, d, out, last>>
    <3>1. /\ n' = n /\ Items(i, to)' = Items(i, to)
          /\ \A k : ItemHeld(k) => ItemHeld(k)'
          /\ \A f, t, j : WordHeld(f, t, j) => WordHeld(f, t, j)'
      BY <2>1, <2>3, StaysHeld
    <3>2. \A k \in 1..n : Behind(k)' => ItemHeld(k)'
      BY <1>1, <2>1, <2>3, <3>1 DEF Held, Behind
    <3>3. \A j \in 1..Len(Items(i, to)) : j < w' /\ j < cur' => WordHeld(i, to, j)'
      BY <1>1, <2>1, <2>2, <2>3, <3>1 DEF Held
    <3>4. QED
      BY <2>1, <2>2, <2>3, <3>1, <3>2, <3>3 DEF Held
  <2>4. CASE Flush /\ (\/ cur' = w /\ w' = w + 1 /\ UNCHANGED <<pc, c, d>>
                       \/ cur' = 0 /\ pc' = "chars" /\ c' = 1 /\ d' = 1 /\ w' = w)
    <3>1. /\ out \subseteq out'
          /\ \A j \in 1..Len(Items(i, to)) : j < w => WordHeld(i, to, j)'
      BY <1>1, <2>1, <2>4, FlushHeld
    <3>2. /\ n' = n /\ Items(i, to)' = Items(i, to)
          /\ \A k : ItemHeld(k) => ItemHeld(k)'
      BY <2>1, <3>1, StaysHeld
    <3>3. \A k \in 1..n : Behind(k)' => ItemHeld(k)'
      BY <1>1, <2>1, <2>4, <3>2 DEF Held, Behind
    <3>4. \A j \in 1..Len(Items(i, to)) :
            j < w' /\ (cur' = 0 \/ j < cur') => WordHeld(i, to, j)'
      BY <2>2, <2>4, <3>1
    <3>5. pc' = "chars" => \A x \in 1..Items(i, to)[w] : ~(x < c')
      BY <2>1, <2>4
    <3>6. QED
      BY <2>1, <2>4, <3>2, <3>3, <3>4, <3>5 DEF Held
  <2>5. QED
    BY <1>6, <2>3, <2>4 DEF Split
<1>7. CASE SplitEnds
  <2>1. /\ pc = "split" /\ w > Len(Items(i, to)) /\ Flush /\ Advance(to + 1)
        /\ block' = block
    BY <1>7 DEF SplitEnds
  <2>2. /\ i \in 1..n /\ to \in i..n /\ w \in Nat /\ Len(Items(i, to)) \in Nat
    <3>1. i \in 1..n /\ to \in i..n /\ w \in 1..(Len(Items(i, to)) + 1)
      BY <1>1, <2>1 DEF Placed
    <3>2. n \in Nat /\ i \in Int /\ to \in 1..n
      <4>1. n \in Nat
        BY <1>1, BlockFacts
      <4> QED BY ONLY <3>1, <4>1
    <3>3. Items(i, to) \in Seq(Nat)
      BY <1>1, <3>1, <3>2, BlockFacts
    <3> QED BY <3>1, <3>3
  <2>3. PICK f, t : f = i /\ t = to
    OBVIOUS
  <2>4. /\ out \subseteq out'
        /\ \A j \in 1..Len(Items(f, t)) : WordHeld(f, t, j)'
    BY <1>1, <2>1, <2>2, <2>3, FlushHeld
  <2>5. /\ n' = n /\ Items(f, t)' = Items(f, t)
        /\ \A k : ItemHeld(k) => ItemHeld(k)'
    BY <2>1, <2>4, StaysHeld
  <2>6. /\ pc' = IF to + 1 > n THEN "done" ELSE "walk"
        /\ i' = to + 1
    BY <2>1 DEF Advance
  <2>7. ASSUME NEW k \in 1..n, k <= to PROVE ItemHeld(k)'
    <3>1. CASE k < i
      BY <1>1, <2>5, <3>1 DEF Held, Behind
    <3>2. CASE k >= i
      <4>1. f \in 1..k /\ t \in k..n'
        BY <1>2, <2>2, <2>3, <2>5, <2>7, <3>2
      <4>2. \A j \in 1..Len(Items(f, t)') : WordHeld(f, t, j)'
        BY <2>4, <2>5
      <4>3. QED
        BY <4>1, <4>2 DEF ItemHeld
    <3>3. QED
      BY <2>2, <3>1, <3>2
  <2>8. \A k \in 1..n : Behind(k)' => ItemHeld(k)'
    BY <1>2, <2>2, <2>6, <2>7 DEF Behind
  <2>9. QED
    BY <2>5, <2>6, <2>8 DEF Held
<1>8. CASE SplitWord
  <2>1. /\ pc = "chars" /\ block' = block /\ i' = i /\ to' = to /\ cur' = cur
    BY <1>8 DEF SplitWord
  <2>2. /\ i \in 1..n /\ to \in i..n /\ cur = 0 /\ w \in 1..Len(Items(i, to))
        /\ Len(Items(i, to)) \in Nat /\ Items(i, to)[w] \in Nat
        /\ c \in Nat /\ d \in Nat /\ c <= d
    <3>1. /\ i \in 1..n /\ to \in i..n /\ cur = 0 /\ w \in 1..Len(Items(i, to)) /\ c <= d
      BY <1>1, <2>1 DEF Placed
    <3>2. c \in Nat /\ d \in Nat
      BY <1>1 DEF TypeOK
    <3>3. n \in Nat /\ \A f \in 1..n, t \in 1..n : Items(f, t) \in Seq(Nat)
      BY <1>1, BlockFacts
    <3>4. Items(i, to) \in Seq(Nat)
      BY <3>1, <3>3
    <3>5. Len(Items(i, to)) \in Nat /\ Items(i, to)[w] \in Nat
      BY <3>1, <3>4
    <3> QED BY <3>1, <3>2, <3>5
  <2>3. CASE d' = d + 1 /\ UNCHANGED <<pc, w, c, out, last>>
    <3>1. /\ n' = n /\ Items(i, to)' = Items(i, to)
          /\ \A k : ItemHeld(k) => ItemHeld(k)'
          /\ \A f, t, j : WordHeld(f, t, j) => WordHeld(f, t, j)'
          /\ \A f, t, j, x : CharHeld(f, t, j, x) => CharHeld(f, t, j, x)'
      BY <2>1, <2>3, StaysHeld
    <3>2. \A k \in 1..n : Behind(k)' => ItemHeld(k)'
      BY <1>1, <2>1, <2>3, <3>1 DEF Held, Behind
    <3>3. QED
      BY <1>1, <2>1, <2>2, <2>3, <3>1, <3>2 DEF Held
  <2>4. CASE /\ Emit(Chunk(i, to, {w}, c..d, Tokens(<<d - c + 1>>)))
             /\ c' = d + 1 /\ d' = d + 1
             /\ IF d < Items(i, to)[w] THEN UNCHANGED <<pc, w>>
                ELSE pc' = "split" /\ w' = w + 1
    <3>1. out \subseteq out' /\ Chunk(i, to, {w}, c..d, Tokens(<<d - c + 1>>)) \in out'
      BY <2>4 DEF Emit
    <3>2. /\ n' = n /\ Items(i, to)' = Items(i, to)
          /\ \A k : ItemHeld(k) => ItemHeld(k)'
          /\ \A f, t, j : WordHeld(f, t, j) => WordHeld(f, t, j)'
          /\ \A f, t, j, x : CharHeld(f, t, j, x) => CharHeld(f, t, j, x)'
      BY <2>1, <3>1, StaysHeld
    <3>3. \A k \in 1..n : Behind(k)' => ItemHeld(k)'
      BY <1>1, <2>1, <2>4, <3>2 DEF Held, Behind
    <3>4. PICK f, t, v : f = i /\ t = to /\ v = w
      OBVIOUS
    <3>5. ASSUME NEW x \in 1..Items(i, to)[w], x <= d PROVE CharHeld(f, t, v, x)'
      <4>1. CASE x < c
        BY <1>1, <2>1, <3>2, <3>4, <3>5, <4>1 DEF Held
      <4>2. CASE x >= c
        <5>1. x \in c..d
          BY <2>2, <3>5, <4>2
        <5>2. \E k \in out' : k.from = f /\ k.to = t /\ v \in k.words /\ x \in k.chars
          BY <3>1, <3>4, <5>1 DEF Chunk
        <5>3. QED
          BY <5>2 DEF CharHeld
      <4>3. QED
        BY <2>2, <4>1, <4>2
    <3>6. CASE d < Items(i, to)[w]
      <4>1. \A x \in 1..Items(i, to)[w] : x < c' => CharHeld(f, t, v, x)'
        BY <2>2, <2>4, <3>5
      <4>2. pc' = "chars" /\ w' = w /\ cur' = 0
        BY <2>1, <2>2, <2>4, <3>6
      <4>3. \A j \in 1..Len(Items(i, to)) : j < w' => WordHeld(i, to, j)'
        BY <1>1, <2>1, <2>2, <3>2, <4>2 DEF Held
      <4>4. (\A x \in 1..Items(i, to)[w] : x < c => CharHeld(i, to, w, x))'
        BY <2>1, <3>2, <3>4, <4>1, <4>2
      <4>5. QED
        BY <2>1, <3>2, <3>3, <4>2, <4>3, <4>4 DEF Held
    <3>7. CASE ~(d < Items(i, to)[w])
      <4>1. WordHeld(f, t, v)'
        BY <2>2, <3>2, <3>4, <3>5, <3>7, <2>1 DEF WordHeld
      <4>2. \A j \in 1..Len(Items(i, to)) : j < w' => WordHeld(i, to, j)'
        BY <1>1, <2>1, <2>2, <2>4, <3>2, <3>4, <3>7, <4>1 DEF Held
      <4>3. QED
        BY <2>1, <2>4, <3>2, <3>3, <3>7, <4>2 DEF Held
    <3>8. QED
      BY <3>6, <3>7
  <2>5. QED
    BY <1>8, <2>3, <2>4 DEF SplitWord
<1>9. CASE UNCHANGED vars
  <2>1. block' = block /\ out' = out /\ UNCHANGED <<pc, i, to, w, cur, c>>
    BY <1>9 DEF vars
  <2>2. /\ n' = n /\ Items(i, to)' = Items(i, to)
        /\ \A k : ItemHeld(k) => ItemHeld(k)'
        /\ \A f, t, j : WordHeld(f, t, j) => WordHeld(f, t, j)'
        /\ \A f, t, j, x : CharHeld(f, t, j, x) => CharHeld(f, t, j, x)'
    BY <2>1, StaysHeld
  <2>3. \A k \in 1..n : Behind(k)' => ItemHeld(k)'
    BY <1>1, <1>9, <2>2 DEF Held, Behind, vars
  <2>4. QED
    BY <1>1, <2>1, <2>2, <2>3 DEF Held
<1>10. QED
  BY <1>1, <1>3, <1>4, <1>5, <1>6, <1>7, <1>8, <1>9 DEF Next

\* Nothing of a block is lost, whatever the blocks, the tokenizer and the
\* configuration.
THEOREM NothingIsLost == Spec => []NothingLost
<1>1. Init => TypeOK /\ Placed /\ Held
  BY Initially
<1>2. TypeOK /\ Placed /\ Held /\ [Next]_vars => (TypeOK /\ Placed /\ Held)'
  BY StepPlaced, StepHeld
<1>3. Held => NothingLost
  BY DEF Held, Behind, NothingLost
<1>4. QED
  BY <1>1, <1>2, <1>3, PTL DEF Spec

\* How far a cut still is from its end, the first of these that changes deciding:
\* the items it has yet to begin, its loop, and the place in that loop.
Loop == [walk |-> 3, grow |-> 2, overlap |-> 1, split |-> 1, chars |-> 1, done |-> 0]
CutNears ==
  \/ pc' = "done"
  \/ i' > i /\ i' <= n
  \/ i' = i /\ Loop[pc'] < Loop[pc]
  \/ UNCHANGED <<i, pc>> /\ pc = "grow" /\ to' > to /\ to' <= n
  \/ UNCHANGED <<i, pc>> /\ pc = "overlap" /\ back' < back /\ back' >= i
  \/ /\ UNCHANGED <<i, to>> /\ {pc, pc'} \subseteq {"split", "chars"}
     /\ \/ w' > w /\ w' <= Len(Items(i, to)) + 1
        \/ w' = w /\ pc = "split" /\ pc' = "chars"
        \/ w' = w /\ pc = "chars" /\ pc' = "chars" /\ d' > d /\ d' <= Items(i, to)[w]

\* Past the items i..k the cut is done or has begun a later one.
LEMMA AdvanceNears ==
  ASSUME TypeOK, NEW k \in Int, k > i, Advance(k)
  PROVE  pc' = "done" \/ (i' > i /\ i' <= n)
<1>1. n \in Nat /\ i \in Nat
  BY BlockFacts DEF TypeOK
<1>2. QED
  BY <1>1 DEF Advance

LEMMA CutNext == ASSUME TypeOK, Placed, Next PROVE CutNears
<1>1. n \in Nat
  BY BlockFacts
<1>2. ASSUME pc \in {"walk", "grow"}, Push PROVE CutNears
  <2>1. i \in 1..n /\ to \in i..n
    BY <1>2 DEF Placed
  <2>2. CASE Advance(to + 1)
    BY <2>1, <2>2, AdvanceNears DEF CutNears
  <2>3. CASE StartSplit
    <3>1. i' = i /\ pc' = "split" /\ Loop[pc'] = 1 /\ Loop[pc] \in {2, 3}
      BY <1>2, <2>3 DEF StartSplit, Loop
    <3>2. QED
      BY <3>1 DEF CutNears
  <2>4. QED
    BY <1>2, <2>2, <2>3 DEF Push
<1>3. CASE Walk
  <2>1. CASE pc' = "grow" /\ i' = i
    <3>1. Loop[pc'] = 2 /\ Loop[pc] = 3
      BY <1>3, <2>1 DEF Walk, Loop
    <3>2. QED
      BY <2>1, <3>1 DEF CutNears
  <2>2. QED
    BY <1>2, <1>3, <2>1 DEF Walk
<1>4. CASE Grow
  <2>1. pc = "grow" /\ i \in 1..n /\ to \in i..n
    BY <1>4 DEF Grow, Placed
  <2>2. CASE to < n /\ to' = to + 1 /\ UNCHANGED <<pc, i>>
    BY <1>1, <2>1, <2>2 DEF CutNears
  <2>3. CASE pc' \in {"done", "overlap"} /\ i' = i
    <3>1. Loop["overlap"] = 1 /\ Loop[pc] = 2
      BY <2>1 DEF Loop
    <3>2. QED
      BY <2>3, <3>1 DEF CutNears
  <2>4. QED
    BY <1>2, <1>4, <2>1, <2>2, <2>3 DEF Grow
<1>5. CASE CarryBack
  <2>1. pc = "overlap" /\ i \in 1..n /\ to \in i..n /\ back \in i..to
    BY <1>5 DEF CarryBack, Placed
  <2>2. CASE back # i /\ back' = back - 1 /\ UNCHANGED <<pc, i>>
    BY <1>1, <2>1, <2>2 DEF CutNears
  <2>3. CASE Advance(IF back > i THEN back ELSE i + 1)
    <3>1. (IF back > i THEN back ELSE i + 1) \in Int /\ (IF back > i THEN back ELSE i + 1) > i
      BY <1>1, <2>1
    <3>2. QED
      BY <2>3, <3>1, AdvanceNears DEF CutNears
  <2>4. QED
    BY <1>5, <2>2, <2>3 DEF CarryBack
<1>6. CASE Split
  <2>1. /\ pc = "split" /\ UNCHANGED <<i, to>> /\ w <= Len(Items(i, to))
        /\ i \in 1..n /\ to \in i..n /\ w \in 1..(Len(Items(i, to)) + 1)
    BY <1>6 DEF Split, Placed
  <2>2. w \in Nat /\ Len(Items(i, to)) \in Nat
    BY <1>1, <2>1, BlockFacts DEF TypeOK
  <2>3. \/ w' = w + 1 /\ pc' = pc
        \/ w' = w /\ pc' = "chars"
    BY <1>6 DEF Split
  <2>4. QED
    BY <2>1, <2>2, <2>3 DEF CutNears
<1>7. CASE SplitEnds
  <2>1. i \in 1..n /\ to \in i..n /\ Advance(to + 1)
    BY <1>7 DEF SplitEnds, Placed
  <2>2. QED
    BY <1>1, <2>1, AdvanceNears DEF CutNears
<1>8. CASE SplitWord
  <2>1. /\ pc = "chars" /\ UNCHANGED <<i, to>> /\ i \in 1..n /\ to \in i..n
        /\ w \in 1..Len(Items(i, to))
    BY <1>8 DEF SplitWord, Placed
  <2>2. /\ Items(i, to) \in Seq(Nat) /\ Len(Items(i, to)) \in Nat
        /\ Items(i, to)[w] \in Nat /\ d \in Nat
    <3>1. to \in 1..n /\ d \in Nat
      BY <1>1, <2>1 DEF TypeOK
    <3>2. Items(i, to) \in Seq(Nat)
      BY <2>1, <3>1, BlockFacts
    <3>3. QED
      BY <2>1, <3>1, <3>2
  <2>3. \/ d < Items(i, to)[w] /\ d' = d + 1 /\ UNCHANGED <<pc, w>>
        \/ pc' = "split" /\ w' = w + 1
    BY <1>8 DEF SplitWord
  <2>4. QED
    BY <2>1, <2>2, <2>3 DEF CutNears
<1>9. QED
  BY <1>3, <1>4, <1>5, <1>6, <1>7, <1>8 DEF Next

\* Every turn of a loop of chunk.rs, the windows that overlap included, brings
\* the cut nearer its end: the next window begins past where this one did, and
\* what is carried back into it, the words of a piece and the chars of a word run
\* out, whatever the tokenizer counts and the configuration asks for.
THEOREM CutsWindDown == Spec => [][CutNears]_vars
<1>1. Init => TypeOK /\ Placed
  BY Initially
<1>2. TypeOK /\ Placed /\ [Next]_vars => (TypeOK /\ Placed)' /\ [CutNears]_vars
  BY StepPlaced, CutNext
<1>3. QED
  BY <1>1, <1>2, PTL DEF Spec
-----------------------------------------------------------------------------
(* The file of a pack *)

ChunkRow == [doc : Nat, nth : Nat]
Vector == [chunk : Nat, by : Embedders]
PackBuilt == [width : Nat, dims : Nat, docs : Seq(Nat), chunks : Seq(ChunkRow),
              fts : Seq(Nat), vec : Seq(Vector), keys : SUBSET AllKeys,
              tier : {"none", "personal"}, embedder : Embedders \cup {"none"},
              schema : {"ours"}, signed : {FALSE}]
Building == building \in {"docs", "chunks", "fts", "embed"}

Counts(q, m) == q \in Seq(Nat) /\ Len(q) = m /\ \A k \in 1..m : q[k] = k
LEMMA CountsAppend ==
  ASSUME NEW q, NEW m \in Nat, Counts(q, m) PROVE Counts(Append(q, m + 1), m + 1)
<1>1. /\ q \in Seq(Nat) /\ Len(q) = m /\ \A k \in 1..m : q[k] = k
  BY DEF Counts
<1>2. /\ Append(q, m + 1) \in Seq(Nat) /\ Len(Append(q, m + 1)) = m + 1
      /\ Append(q, m + 1)[m + 1] = m + 1
      /\ \A k \in 1..m : Append(q, m + 1)[k] = q[k]
  BY <1>1
<1>3. \A k \in 1..(m + 1) : k = m + 1 \/ k \in 1..m
  OBVIOUS
<1> QED BY <1>1, <1>2, <1>3 DEF Counts

LEMMA CountsIs ==
  ASSUME NEW q, NEW m \in Nat, Counts(q, m) PROVE q = [k \in 1..m |-> k]
<1>1. q \in Seq(Nat) /\ Len(q) = m /\ \A k \in 1..m : q[k] = k
  BY DEF Counts
<1>2. q \in [1..m -> Nat]
  BY ONLY <1>1, LenProperties
<1> QED BY ONLY <1>1, <1>2

\* The chunks of the sources before this one are inserted, and those of its own
\* up to where the build is.
Inserted(s, m) ==
  \/ s < source_at
  \/ s = source_at /\ building = "chunks" /\ m < chunk_at
  \/ s = source_at /\ building = "fts" /\ m <= chunk_at
ChunksSoFar(q) ==
  /\ \A k \in 1..Len(q) : /\ q[k].doc \in 1..Len(Sources)
                          /\ q[k].nth \in 1..Sources[q[k].doc]
                          /\ Inserted(q[k].doc, q[k].nth)
  /\ \A s \in 1..Len(Sources) : \A m \in 1..Sources[s] :
       Inserted(s, m) => \E k \in 1..Len(q) : q[k] = [doc |-> s, nth |-> m]
  /\ \A j, k \in 1..Len(q) : j < k => InOrder(q[j], q[k])

\* Where the build is.
Place ==
  /\ source_at \in 1..(Len(Sources) + 1) /\ chunk_at \in Nat \ {0}
  /\ building \in {"chunks", "fts"} =>
       /\ source_at <= Len(Sources)
       /\ chunk_at <= Sources[source_at] + (IF building = "chunks" THEN 1 ELSE 0)
  /\ building = "embed" => source_at = Len(Sources) + 1 /\ chunk_at <= Len(pending) + 1
  /\ building \in {"idle", "built", "open"} => source_at = 1 /\ pending = << >>
\* What is in the file then: one doc per source, one row of fts per chunk.
Rows ==
  /\ Counts(dotPart.docs, IF building \in {"chunks", "fts"} THEN source_at ELSE source_at - 1)
  /\ ChunksSoFar(dotPart.chunks)
  /\ Counts(dotPart.fts,
            IF building = "fts" THEN Len(dotPart.chunks) - 1 ELSE Len(dotPart.chunks))
  /\ pending = dotPart.fts
Vectors ==
  /\ Len(dotPart.vec) = (IF building = "embed" THEN chunk_at - 1 ELSE 0)
  /\ \A k \in 1..Len(dotPart.vec) : dotPart.vec[k] = [chunk |-> pending[k], by |-> installed]
Keys ==
  /\ dotPart.width = Dims(installed) /\ dotPart.dims = dotPart.width
  /\ "pack" \in dotPart.keys => dotPart.tier = "personal"
  /\ "embedder" \in dotPart.keys => dotPart.embedder = installed
\* The file under the final name, and what was mounted of it.
Complete(f) ==
  f.keys = AllKeys =>
    Len(f.vec) = Len(f.chunks) /\ \A k \in DOMAIN f.vec : f.vec[k].by = f.embedder
BuiltWell ==
  /\ Mounts(kpack) /\ kpack.docs = [s \in 1..Len(Sources) |-> s]
  /\ {kpack.chunks[k] : k \in 1..Len(kpack.chunks)} = AllChunks
  /\ \A j, k \in 1..Len(kpack.chunks) : j < k => InOrder(kpack.chunks[j], kpack.chunks[k])
  /\ kpack.fts = [k \in 1..Len(kpack.chunks) |-> k]
  /\ [k \in 1..Len(kpack.vec) |-> kpack.vec[k].chunk] = kpack.fts
Mounted ==
  mounted # NoMount =>
    /\ Len(mounted.file.vec) = Len(mounted.file.chunks)
    /\ \A k \in DOMAIN mounted.file.vec : mounted.file.vec[k].by = mounted.by
FileInv ==
  /\ installed \in Embedders
  /\ building \in {"idle", "open", "docs", "chunks", "fts", "embed", "built"}
  /\ Place
  /\ building = "open" => dotPart = NoFile
  /\ Building => dotPart \in PackBuilt /\ Rows /\ Vectors /\ Keys
  /\ kpack = NoFile \/ Complete(kpack)
  /\ building = "built" => BuiltWell
  /\ Mounted

LEMMA FileInit == FInit => FileInv
<1> SUFFICES ASSUME FInit PROVE FileInv
  OBVIOUS
<1>1. Len(Sources) \in Nat
  BY PackFileAssumption
<1>2. Place
  BY <1>1 DEF FInit, Place
<1> QED BY <1>2 DEF FInit, FileInv, Building, Mounted

\* A step that leaves the build where it is not: nothing to keep but the file
\* under the final name and the mount.
LEMMA FileRests ==
  ASSUME FileInv, installed' \in Embedders, building' \in {"idle", "open"}, Over,
         building' = "open" => dotPart' = NoFile,
         kpack' = kpack \/ Complete(kpack)', mounted' = mounted \/ mounted' = NoMount
  PROVE  FileInv'
<1>1. Place'
  <2>1. Len(Sources) \in Nat
    BY PackFileAssumption
  <2> QED BY <2>1 DEF Over, Place
<1>2. Mounted'
  BY DEF FileInv, Mounted
<1>3. kpack' = NoFile \/ Complete(kpack)'
  BY DEF FileInv, Complete
<1> QED BY <1>1, <1>2, <1>3 DEF FileInv, Building

LEMMA FileBuilds ==
  ASSUME FileInv, UNCHANGED App, building' \in {"docs", "chunks", "fts", "embed"},
         Place', dotPart' \in PackBuilt, Rows', Vectors', Keys'
  PROVE  FileInv'
<1>1. Mounted'
  BY DEF FileInv, Mounted, App
<1>2. kpack' = NoFile \/ Complete(kpack)'
  BY DEF FileInv, Complete, App
<1> QED BY <1>1, <1>2 DEF FileInv, App

\* The same chunks, of which none is inserted by the step.
LEMMA ChunksRest ==
  ASSUME NEW q, ChunksSoFar(q), dotPart'.chunks = q, dotPart.chunks = q,
         \A s \in 1..Len(Sources) : \A m \in 1..Sources[s] : Inserted(s, m)' <=> Inserted(s, m)
  PROVE  ChunksSoFar(dotPart.chunks)'
BY DEF ChunksSoFar

LEMMA KeepsBuilding ==
  ASSUME FileInv, Building
  PROVE  /\ Len(Sources) \in Nat /\ \A s \in 1..Len(Sources) : Sources[s] \in Nat
         /\ dotPart \in PackBuilt /\ Rows /\ Vectors /\ Keys /\ Place
         /\ installed \in Embedders
         /\ source_at \in Nat /\ chunk_at \in Nat
BY PackFileAssumption DEF FileInv, Place

LEMMA OpenKeeps ==
  ASSUME FileInv, OpenOrCreate PROVE FileInv'
<1>1. /\ dotPart' = Created /\ building' = "docs" /\ source_at' = 1 /\ chunk_at' = chunk_at
      /\ chunk_at \in Nat \ {0} /\ pending' = << >> /\ installed' = installed
      /\ UNCHANGED App
  BY DEF FileInv, OpenOrCreate, App, Where, Place
<1>2. Len(Sources) \in Nat /\ Dims(installed) \in Nat
  BY PackFileAssumption DEF FileInv
<1>3. dotPart' \in PackBuilt
  BY <1>1, <1>2 DEF Created, PackBuilt, AllKeys
<1>4. Place'
  BY <1>1, <1>2 DEF Place
<1>5. Rows'
  <2>1. dotPart'.docs = << >> /\ dotPart'.chunks = << >> /\ dotPart'.fts = << >>
    BY <1>1 DEF Created
  <2>2. Counts(<< >>, 0)
    BY DEF Counts
  <2>3. ChunksSoFar(dotPart.chunks)'
    BY <1>1, <2>1 DEF ChunksSoFar, Inserted
  <2> QED BY <1>1, <2>1, <2>2, <2>3 DEF Rows
<1>6. Vectors' /\ Keys'
  BY <1>1 DEF Created, Vectors, Keys
<1> QED BY <1>1, <1>3, <1>4, <1>5, <1>6, FileBuilds

LEMMA DocKeeps ==
  ASSUME FileInv, InsertDoc PROVE FileInv'
<1>0. Building
  BY DEF InsertDoc, Building
<1>1. /\ building = "docs" /\ building' = "chunks" /\ source_at <= Len(Sources)
      /\ source_at' = source_at /\ chunk_at' = 1 /\ pending' = pending
      /\ installed' = installed /\ UNCHANGED App
      /\ dotPart' = [dotPart EXCEPT !.docs = Append(@, source_at)]
  BY DEF InsertDoc, App
<1>2. source_at \in 1..Len(Sources) /\ Sources[source_at] \in Nat
  BY <1>0, <1>1, KeepsBuilding DEF Place
<1>3. dotPart' \in PackBuilt
  <2> DEFINE q == Append(dotPart.docs, source_at)
  <2>1. dotPart \in PackBuilt
    BY <1>0, KeepsBuilding
  <2>2. dotPart.docs \in Seq(Nat) /\ source_at \in Nat
    BY <1>2, <2>1 DEF PackBuilt
  <2>3. q \in Seq(Nat)
    BY <2>2
  <2>4. dotPart' = [dotPart EXCEPT !.docs = q]
    BY <1>1
  <2> HIDE DEF q
  <2> QED BY <2>1, <2>3, <2>4 DEF PackBuilt
<1>4. /\ dotPart'.docs = Append(dotPart.docs, source_at) /\ dotPart'.chunks = dotPart.chunks
      /\ dotPart'.fts = dotPart.fts /\ dotPart'.vec = dotPart.vec
      /\ dotPart'.width = dotPart.width /\ dotPart'.dims = dotPart.dims
      /\ dotPart'.keys = dotPart.keys /\ dotPart'.tier = dotPart.tier
      /\ dotPart'.embedder = dotPart.embedder
  BY <1>0, <1>1, KeepsBuilding DEF PackBuilt
<1>5. Place'
  BY <1>0, <1>1, <1>2, KeepsBuilding DEF Place
<1>6. Rows'
  <2>1. Counts(dotPart'.docs, source_at)
    <3>1. Counts(dotPart.docs, source_at - 1)
      BY <1>0, <1>1, KeepsBuilding DEF Rows
    <3>2. source_at - 1 \in Nat /\ (source_at - 1) + 1 = source_at
      BY <1>2
    <3> QED BY <3>1, <3>2, <1>4, CountsAppend
  <2>2. ChunksSoFar(dotPart.chunks)'
    <3>1. \A s \in 1..Len(Sources) : \A m \in 1..Sources[s] : Inserted(s, m)' <=> Inserted(s, m)
      BY <1>1, KeepsBuilding, <1>0 DEF Inserted
    <3>2. ChunksSoFar(dotPart.chunks)
      BY <1>0, KeepsBuilding DEF Rows
    <3> QED BY <3>1, <3>2, <1>4, ChunksRest
  <2> QED BY <2>1, <2>2, <1>0, <1>1, <1>4, KeepsBuilding DEF Rows
<1>7. Vectors' /\ Keys'
  BY <1>0, <1>1, <1>4, KeepsBuilding DEF Vectors, Keys
<1> QED BY <1>1, <1>3, <1>5, <1>6, <1>7, FileBuilds

LEMMA ChunkKeeps ==
  ASSUME FileInv, InsertChunk PROVE FileInv'
<1> DEFINE x == [doc |-> source_at, nth |-> chunk_at]
<1> DEFINE q == dotPart.chunks
<1> DEFINE r == Append(q, x)
<1>0. Building
  BY DEF InsertChunk, Building
<1>1. /\ building = "chunks" /\ building' = "fts" /\ chunk_at <= Sources[source_at]
      /\ source_at' = source_at /\ chunk_at' = chunk_at /\ pending' = pending
      /\ installed' = installed /\ UNCHANGED App
      /\ dotPart' = [dotPart EXCEPT
           !.chunks = Append(@, [doc |-> Len(dotPart.docs), nth |-> chunk_at])]
  BY DEF InsertChunk, App, Where
<1>2. /\ source_at \in 1..Len(Sources) /\ Sources[source_at] \in Nat
      /\ chunk_at \in 1..Sources[source_at] /\ Len(Sources) \in Nat
      /\ dotPart \in PackBuilt /\ Rows
  BY <1>0, <1>1, KeepsBuilding DEF Place
<1>3. Len(dotPart.docs) = source_at
  BY <1>1, <1>2 DEF Rows, Counts
<1>4. x \in ChunkRow /\ q \in Seq(ChunkRow) /\ r \in Seq(ChunkRow)
  <2>1. x \in ChunkRow
    BY <1>2 DEF ChunkRow
  <2>2. q \in Seq(ChunkRow)
    BY <1>2 DEF PackBuilt
  <2> HIDE DEF x, q
  <2> QED BY <2>1, <2>2
<1>5. dotPart' = [dotPart EXCEPT !.chunks = r]
  BY <1>1, <1>3
<1>6. /\ r = Append(q, x) /\ Len(q) \in Nat /\ Len(r) = Len(q) + 1 /\ r[Len(q) + 1] = x
      /\ \A k \in 1..Len(q) : r[k] = q[k]
  BY <1>4
<1>7. x.doc = source_at /\ x.nth = chunk_at
  OBVIOUS
<1>8. ChunksSoFar(q)
  BY <1>2 DEF Rows
<1> HIDE DEF r
<1>9. /\ dotPart' \in PackBuilt
      /\ dotPart'.docs = dotPart.docs /\ dotPart'.chunks = r
      /\ dotPart'.fts = dotPart.fts /\ dotPart'.vec = dotPart.vec
      /\ dotPart'.width = dotPart.width /\ dotPart'.dims = dotPart.dims
      /\ dotPart'.keys = dotPart.keys /\ dotPart'.tier = dotPart.tier
      /\ dotPart'.embedder = dotPart.embedder
  BY <1>2, <1>4, <1>5 DEF PackBuilt
<1>10. Place'
  BY <1>1, <1>2 DEF Place
<1>11. ChunksSoFar(dotPart.chunks)'
  <2>0. PICK p, t : p = q /\ t = r
    OBVIOUS
  <2>20. /\ Len(p) \in Nat /\ Len(t) = Len(p) + 1 /\ t[Len(p) + 1] = x
        /\ \A k \in 1..Len(p) : t[k] = p[k]
    BY <1>6, <2>0
  <2>21. ChunksSoFar(p) /\ dotPart'.chunks = t
    BY <1>8, <1>9, <2>0
  <2> HIDE DEF x, q
  <2>1. \A s \in 1..Len(Sources) : \A m \in 1..Sources[s] :
          /\ Inserted(s, m) => Inserted(s, m)'
          /\ Inserted(s, m)' => Inserted(s, m) \/ (s = source_at /\ m = chunk_at)
    BY <1>1, <1>2, PackFileAssumption DEF Inserted
  <2>2. \A s, m : (s = source_at /\ m = chunk_at) => Inserted(s, m)'
    BY <1>1, <1>2 DEF Inserted
  <2>3. \A k \in 1..(Len(p) + 1) : k = Len(p) + 1 \/ k \in 1..Len(p)
    BY <2>20
  <2>4. \A k \in 1..Len(t) : /\ t[k].doc \in 1..Len(Sources)
                             /\ t[k].nth \in 1..Sources[t[k].doc]
                             /\ Inserted(t[k].doc, t[k].nth)'
    <3> SUFFICES ASSUME NEW k \in 1..Len(t)
                 PROVE /\ t[k].doc \in 1..Len(Sources)
                       /\ t[k].nth \in 1..Sources[t[k].doc]
                       /\ Inserted(t[k].doc, t[k].nth)'
      OBVIOUS
    <3>1. CASE k = Len(p) + 1
      BY <3>1, <1>2, <2>20, <1>7, <2>2
    <3>2. CASE k \in 1..Len(p)
      BY <3>2, <2>20, <2>21, <2>1 DEF ChunksSoFar
    <3> QED BY <2>20, <2>3, <3>1, <3>2
  <2>5. \A s \in 1..Len(Sources) : \A m \in 1..Sources[s] :
          Inserted(s, m)' => \E k \in 1..Len(t) : t[k] = [doc |-> s, nth |-> m]
    <3> SUFFICES ASSUME NEW s \in 1..Len(Sources), NEW m \in 1..Sources[s], Inserted(s, m)'
                 PROVE \E k \in 1..Len(t) : t[k] = [doc |-> s, nth |-> m]
      OBVIOUS
    <3>1. CASE s = source_at /\ m = chunk_at
      BY <3>1, <2>20 DEF x
    <3>2. CASE Inserted(s, m)
      <4>1. PICK k \in 1..Len(p) : p[k] = [doc |-> s, nth |-> m]
        BY <3>2, <2>21 DEF ChunksSoFar
      <4>2. k \in 1..Len(t)
        BY <2>20
      <4> QED BY <2>20, <4>1, <4>2
    <3> QED BY <2>1, <3>1, <3>2
  <2>6. \A j, k \in 1..Len(t) : j < k => InOrder(t[j], t[k])
    <3> SUFFICES ASSUME NEW j \in 1..Len(t), NEW k \in 1..Len(t), j < k
                 PROVE InOrder(t[j], t[k])
      OBVIOUS
    <3>1. j \in 1..Len(p)
      BY <2>20
    <3>2. CASE k = Len(p) + 1
      <4>1. p[j].doc \in 1..Len(Sources) /\ p[j].nth \in 1..Sources[p[j].doc]
            /\ Inserted(p[j].doc, p[j].nth)
        BY <3>1, <2>21 DEF ChunksSoFar
      <4>2. p[j].nth \in Nat
        BY <4>1, PackFileAssumption
      <4>3. InOrder(p[j], x)
        BY <4>1, <4>2, <1>1, <1>2, <1>7 DEF Inserted, InOrder
      <4> QED BY <4>3, <3>1, <3>2, <2>20
    <3>3. CASE k \in 1..Len(p)
      BY <3>1, <3>3, <2>20, <2>21 DEF ChunksSoFar
    <3> QED BY <2>20, <2>3, <3>2, <3>3
  <2> QED BY <2>21, <2>4, <2>5, <2>6 DEF ChunksSoFar
<1>12. Rows'
  BY <1>1, <1>2, <1>6, <1>9, <1>11 DEF Rows
<1>13. Vectors' /\ Keys'
  BY <1>0, <1>1, <1>9, KeepsBuilding DEF Vectors, Keys
<1> QED BY <1>1, <1>9, <1>10, <1>12, <1>13, FileBuilds

LEMMA FtsKeeps ==
  ASSUME FileInv, InsertFts PROVE FileInv'
<1> DEFINE q == Append(dotPart.fts, Len(dotPart.chunks))
<1>0. Building
  BY DEF InsertFts, Building
<1>1. /\ building = "fts" /\ building' = "chunks" /\ chunk_at' = chunk_at + 1
      /\ source_at' = source_at /\ installed' = installed /\ UNCHANGED App
      /\ pending' = Append(pending, Len(dotPart.chunks))
      /\ dotPart' = [dotPart EXCEPT !.fts = q]
  BY DEF InsertFts, App
<1>2. /\ source_at \in 1..Len(Sources) /\ Sources[source_at] \in Nat
      /\ chunk_at \in 1..Sources[source_at] /\ Len(Sources) \in Nat
      /\ dotPart \in PackBuilt /\ Rows
  BY <1>0, <1>1, KeepsBuilding DEF Place
<1>20. dotPart.fts \in Seq(Nat) /\ dotPart.chunks \in Seq(ChunkRow)
  BY <1>2 DEF PackBuilt
<1>3. Len(dotPart.chunks) \in Nat /\ Len(dotPart.chunks) - 1 \in Nat
      /\ Counts(dotPart.fts, Len(dotPart.chunks) - 1) /\ pending = dotPart.fts
  <2>1. Counts(dotPart.fts, Len(dotPart.chunks) - 1) /\ pending = dotPart.fts
    BY <1>1, <1>2 DEF Rows
  <2>2. Len(dotPart.chunks) \in Nat /\ Len(dotPart.fts) \in Nat
    BY <1>20
  <2> QED BY <2>1, <2>2 DEF Counts
<1>4. Counts(q, Len(dotPart.chunks)) /\ q \in Seq(Nat)
  <2>1. (Len(dotPart.chunks) - 1) + 1 = Len(dotPart.chunks)
    BY <1>3
  <2>2. Counts(Append(dotPart.fts, (Len(dotPart.chunks) - 1) + 1), (Len(dotPart.chunks) - 1) + 1)
    BY <1>3, CountsAppend
  <2> QED BY <2>1, <2>2 DEF Counts
<1>5. pending' = q
  BY <1>1, <1>3
<1> HIDE DEF q
<1>6. /\ dotPart' \in PackBuilt
      /\ dotPart'.docs = dotPart.docs /\ dotPart'.chunks = dotPart.chunks
      /\ dotPart'.fts = q /\ dotPart'.vec = dotPart.vec
      /\ dotPart'.width = dotPart.width /\ dotPart'.dims = dotPart.dims
      /\ dotPart'.keys = dotPart.keys /\ dotPart'.tier = dotPart.tier
      /\ dotPart'.embedder = dotPart.embedder
  BY <1>1, <1>2, <1>4 DEF PackBuilt
<1>7. Place'
  BY <1>1, <1>2 DEF Place
<1>8. ChunksSoFar(dotPart.chunks)'
  <2>1. \A s \in 1..Len(Sources) : \A m \in 1..Sources[s] : Inserted(s, m)' <=> Inserted(s, m)
    BY <1>1, <1>2 DEF Inserted
  <2>2. ChunksSoFar(dotPart.chunks)
    BY <1>2 DEF Rows
  <2> QED BY <2>1, <2>2, <1>6, ChunksRest
<1>9. Rows'
  BY <1>1, <1>2, <1>4, <1>5, <1>6, <1>8 DEF Rows
<1>10. Vectors' /\ Keys'
  BY <1>0, <1>1, <1>6, KeepsBuilding DEF Vectors, Keys
<1> QED BY <1>1, <1>6, <1>7, <1>9, <1>10, FileBuilds

LEMMA SourceKeeps ==
  ASSUME FileInv, NextSource PROVE FileInv'
<1>0. Building
  BY DEF NextSource, Building
<1>1. /\ building = "chunks" /\ building' = "docs" /\ chunk_at > Sources[source_at]
      /\ source_at' = source_at + 1 /\ chunk_at' = chunk_at /\ pending' = pending
      /\ installed' = installed /\ UNCHANGED App /\ dotPart' = dotPart
  BY DEF NextSource, App
<1>2. /\ source_at \in 1..Len(Sources) /\ Sources[source_at] \in Nat
      /\ chunk_at \in Nat \ {0} /\ Len(Sources) \in Nat /\ Rows
  BY <1>0, <1>1, KeepsBuilding DEF Place
<1>3. Place'
  BY <1>1, <1>2 DEF Place
<1>4. ChunksSoFar(dotPart.chunks)'
  <2>1. \A s \in 1..Len(Sources) : \A m \in 1..Sources[s] : Inserted(s, m)' <=> Inserted(s, m)
    BY <1>1, <1>2, PackFileAssumption DEF Inserted
  <2>2. ChunksSoFar(dotPart.chunks)
    BY <1>2 DEF Rows
  <2> QED BY <2>1, <2>2, <1>1, ChunksRest
<1>5. Rows'
  <2>1. source_at' - 1 = source_at
    BY <1>1, <1>2
  <2> QED BY <2>1, <1>1, <1>2, <1>4 DEF Rows
<1>6. Vectors' /\ Keys' /\ dotPart' \in PackBuilt
  BY <1>0, <1>1, KeepsBuilding DEF Vectors, Keys
<1> QED BY <1>1, <1>3, <1>5, <1>6, FileBuilds

LEMMA Pass2Keeps ==
  ASSUME FileInv, Pass2 PROVE FileInv'
<1>0. Building
  BY DEF Pass2, Building
<1>1. /\ building = "docs" /\ building' = "embed" /\ source_at > Len(Sources)
      /\ source_at' = source_at /\ chunk_at' = 1 /\ pending' = pending
      /\ installed' = installed /\ UNCHANGED App /\ dotPart' = dotPart
  BY DEF Pass2, App
<1>2. source_at = Len(Sources) + 1 /\ Len(Sources) \in Nat /\ Rows /\ dotPart \in PackBuilt
  BY <1>0, <1>1, KeepsBuilding DEF Place
<1>3. Place'
  <2>1. pending \in Seq(Nat)
    BY <1>2 DEF Rows, PackBuilt
  <2>2. Len(pending) \in Nat
    BY <2>1
  <2> QED BY <1>1, <1>2, <2>2 DEF Place
<1>4. ChunksSoFar(dotPart.chunks)'
  <2>1. \A s \in 1..Len(Sources) : \A m \in 1..Sources[s] : Inserted(s, m)' <=> Inserted(s, m)
    BY <1>1, <1>2, PackFileAssumption DEF Inserted
  <2>2. ChunksSoFar(dotPart.chunks)
    BY <1>2 DEF Rows
  <2> QED BY <2>1, <2>2, <1>1, ChunksRest
<1>5. Rows'
  BY <1>1, <1>2, <1>4 DEF Rows
<1>6. Vectors' /\ Keys' /\ dotPart' \in PackBuilt
  BY <1>0, <1>1, KeepsBuilding DEF Vectors, Keys
<1> QED BY <1>1, <1>3, <1>5, <1>6, FileBuilds

LEMMA EmbeddingKeeps ==
  ASSUME FileInv, InsertEmbedding PROVE FileInv'
<1> DEFINE x == [chunk |-> pending[chunk_at], by |-> installed]
<1> DEFINE q == Append(dotPart.vec, x)
<1>0. Building
  BY DEF InsertEmbedding, Building
<1>1. /\ building = "embed" /\ building' = "embed" /\ chunk_at <= Len(pending)
      /\ source_at' = source_at /\ chunk_at' = chunk_at + 1 /\ pending' = pending
      /\ installed' = installed /\ UNCHANGED App
      /\ dotPart' = [dotPart EXCEPT !.vec = q]
  BY DEF InsertEmbedding, App
<1>2. /\ source_at = Len(Sources) + 1 /\ Len(Sources) \in Nat /\ chunk_at \in Nat \ {0}
      /\ dotPart \in PackBuilt /\ Rows /\ Vectors /\ installed \in Embedders
  BY <1>0, <1>1, KeepsBuilding DEF Place
<1>3. pending \in Seq(Nat) /\ dotPart.vec \in Seq(Vector)
  BY <1>2 DEF PackBuilt, Rows
<1>4. Len(pending) \in Nat /\ pending[chunk_at] \in Nat
  BY <1>1, <1>2, <1>3
<1>5. x \in Vector
  BY <1>2, <1>4 DEF Vector
<1>6. x.chunk = pending[chunk_at] /\ x.by = installed
  OBVIOUS
<1>7. Len(dotPart.vec) = chunk_at - 1
      /\ \A k \in 1..Len(dotPart.vec) : dotPart.vec[k] = [chunk |-> pending[k], by |-> installed]
  BY <1>1, <1>2 DEF Vectors
<1>8. /\ q \in Seq(Vector) /\ Len(q) = Len(dotPart.vec) + 1 /\ q[Len(dotPart.vec) + 1] = x
      /\ \A k \in 1..Len(dotPart.vec) : q[k] = dotPart.vec[k]
  <2> HIDE DEF x
  <2> QED BY <1>3, <1>5
<1>9. Len(q) = chunk_at /\ q[chunk_at] = x
  BY <1>2, <1>7, <1>8
<1>10. \A k \in 1..Len(q) : q[k] = [chunk |-> pending[k], by |-> installed]
  <2>1. \A k \in 1..Len(q) : k = chunk_at \/ k \in 1..Len(dotPart.vec)
    BY <1>2, <1>7, <1>9
  <2> QED BY <2>1, <1>7, <1>8, <1>9
<1> HIDE DEF q
<1>11. /\ dotPart' \in PackBuilt
       /\ dotPart'.docs = dotPart.docs /\ dotPart'.chunks = dotPart.chunks
       /\ dotPart'.fts = dotPart.fts /\ dotPart'.vec = q
       /\ dotPart'.width = dotPart.width /\ dotPart'.dims = dotPart.dims
       /\ dotPart'.keys = dotPart.keys /\ dotPart'.tier = dotPart.tier
       /\ dotPart'.embedder = dotPart.embedder
  BY <1>1, <1>2, <1>8 DEF PackBuilt
<1>12. Place'
  BY <1>1, <1>2, <1>4 DEF Place
<1>13. ChunksSoFar(dotPart.chunks)'
  <2>1. \A s \in 1..Len(Sources) : \A m \in 1..Sources[s] : Inserted(s, m)' <=> Inserted(s, m)
    BY <1>1 DEF Inserted
  <2>2. ChunksSoFar(dotPart.chunks)
    BY <1>2 DEF Rows
  <2> QED BY <2>1, <2>2, <1>11, ChunksRest
<1>14. Rows'
  BY <1>1, <1>2, <1>11, <1>13 DEF Rows
<1>15. Vectors'
  <2>1. Len(q) = chunk_at' - 1
    BY <1>1, <1>2, <1>9
  <2> QED BY <2>1, <1>1, <1>10, <1>11 DEF Vectors
<1>16. Keys'
  BY <1>0, <1>1, <1>11, KeepsBuilding DEF Keys
<1> QED BY <1>1, <1>11, <1>12, <1>14, <1>15, <1>16, FileBuilds

LEMMA ManifestKeeps ==
  ASSUME FileInv, WriteManifest PROVE FileInv'
<1>0. Building
  BY DEF WriteManifest, Building
<1>1. PICK key \in AllKeys \ dotPart.keys :
        dotPart' = [dotPart EXCEPT !.keys = @ \cup {key},
          !.tier = IF key = "pack" THEN "personal" ELSE @,
          !.embedder = IF key = "embedder" THEN installed ELSE @]
  BY DEF WriteManifest
<1>2. /\ building = "embed" /\ building' = "embed" /\ source_at' = source_at
      /\ chunk_at' = chunk_at /\ pending' = pending /\ installed' = installed /\ UNCHANGED App
  BY DEF WriteManifest, App, Where
<1>3. /\ dotPart \in PackBuilt /\ Rows /\ Vectors /\ Keys /\ Place /\ installed \in Embedders
  BY <1>0, KeepsBuilding
<1> DEFINE t == IF key = "pack" THEN "personal" ELSE dotPart.tier
<1> DEFINE e == IF key = "embedder" THEN installed ELSE dotPart.embedder
<1> DEFINE all == dotPart.keys \cup {key}
<1>4. t \in {"none", "personal"} /\ e \in Embedders \cup {"none"} /\ all \in SUBSET AllKeys
  <2>1. /\ dotPart.tier \in {"none", "personal"} /\ dotPart.embedder \in Embedders \cup {"none"}
        /\ dotPart.keys \in SUBSET AllKeys
    BY <1>3 DEF PackBuilt
  <2> QED BY <2>1, <1>3
<1>5. ("pack" \in all => t = "personal") /\ ("embedder" \in all => e = installed)
  BY <1>3 DEF Keys
<1>6. dotPart' = [dotPart EXCEPT !.keys = all, !.tier = t, !.embedder = e]
  BY <1>1, Zenon
<1> HIDE DEF t, e, all
<1>7. /\ dotPart' \in PackBuilt
      /\ dotPart'.docs = dotPart.docs /\ dotPart'.chunks = dotPart.chunks
      /\ dotPart'.fts = dotPart.fts /\ dotPart'.vec = dotPart.vec
      /\ dotPart'.width = dotPart.width /\ dotPart'.dims = dotPart.dims
      /\ dotPart'.keys = all /\ dotPart'.tier = t /\ dotPart'.embedder = e
  BY <1>3, <1>4, <1>6 DEF PackBuilt
<1>8. Place'
  BY <1>2, <1>3 DEF Place
<1>9. ChunksSoFar(dotPart.chunks)'
  <2>1. \A s \in 1..Len(Sources) : \A m \in 1..Sources[s] : Inserted(s, m)' <=> Inserted(s, m)
    BY <1>2 DEF Inserted
  <2>2. ChunksSoFar(dotPart.chunks)
    BY <1>3 DEF Rows
  <2> QED BY <2>1, <2>2, <1>7, ChunksRest
<1>10. Rows'
  BY <1>2, <1>3, <1>7, <1>9 DEF Rows
<1>11. Vectors' /\ Keys'
  BY <1>2, <1>3, <1>5, <1>7 DEF Vectors, Keys
<1> QED BY <1>2, <1>7, <1>8, <1>10, <1>11, FileBuilds

\* The file that is renamed is a whole pack of the embedder that is installed.
LEMMA WholeIsBuilt ==
  ASSUME FileInv, building = "embed", chunk_at > Len(pending), dotPart.keys = AllKeys,
         kpack' = dotPart, installed' = installed
  PROVE  BuiltWell' /\ Complete(kpack)'
<1>0. Building
  BY DEF Building
<1>1. /\ dotPart \in PackBuilt /\ Rows /\ Vectors /\ Keys /\ Place /\ installed \in Embedders
      /\ Len(Sources) \in Nat
  BY <1>0, KeepsBuilding
<1>2. /\ dotPart.chunks \in Seq(ChunkRow) /\ dotPart.vec \in Seq(Vector)
      /\ dotPart.fts \in Seq(Nat)
      /\ dotPart.schema = "ours"
  BY <1>1 DEF PackBuilt
<1>3. /\ Counts(dotPart.docs, Len(Sources)) /\ Counts(dotPart.fts, Len(dotPart.chunks))
      /\ pending = dotPart.fts /\ ChunksSoFar(dotPart.chunks) /\ source_at = Len(Sources) + 1
  <2>1. source_at = Len(Sources) + 1 /\ source_at - 1 = Len(Sources)
    BY <1>1 DEF Place
  <2> QED BY <2>1, <1>1 DEF Rows
<1>4. /\ Len(dotPart.chunks) \in Nat /\ Len(dotPart.fts) = Len(dotPart.chunks)
      /\ Len(dotPart.vec) = Len(dotPart.chunks)
  <2>1. Len(dotPart.chunks) \in Nat
    BY <1>2
  <2>2. Len(dotPart.fts) = Len(dotPart.chunks)
    BY <1>3 DEF Counts
  <2>3. chunk_at = Len(pending) + 1
    BY <1>1, <1>3, <2>1, <2>2 DEF Place
  <2> QED BY <1>1, <1>3, <2>1, <2>2, <2>3 DEF Vectors
<1>5. /\ \A k \in 1..Len(dotPart.vec) : dotPart.vec[k].by = installed
      /\ \A k \in 1..Len(dotPart.vec) : dotPart.vec[k].chunk = dotPart.fts[k]
      /\ DOMAIN dotPart.vec = 1..Len(dotPart.vec)
  <2>1. \A k \in 1..Len(dotPart.vec) :
          dotPart.vec[k] = [chunk |-> dotPart.fts[k], by |-> installed]
    BY <1>1, <1>3 DEF Vectors
  <2>2. DOMAIN dotPart.vec = 1..Len(dotPart.vec)
    BY <1>2
  <2>3. \A k \in 1..Len(dotPart.vec) :
          dotPart.vec[k].by = installed /\ dotPart.vec[k].chunk = dotPart.fts[k]
    <3> SUFFICES ASSUME NEW k \in 1..Len(dotPart.vec)
                 PROVE dotPart.vec[k].by = installed /\ dotPart.vec[k].chunk = dotPart.fts[k]
      OBVIOUS
    <3>1. dotPart.vec[k] = [chunk |-> dotPart.fts[k], by |-> installed]
      BY <2>1
    <3> QED BY ONLY <3>1
  <2> QED BY <2>2, <2>3
<1>6. dotPart.embedder = installed /\ dotPart.tier = "personal" /\ dotPart.dims = dotPart.width
  BY <1>1 DEF Keys, AllKeys
<1>7. Complete(dotPart)
  BY <1>4, <1>5, <1>6 DEF Complete
<1>8. Mounts(dotPart)
  <2>1. dotPart # NoFile
    <3>1. "keys" \in DOMAIN dotPart /\ "keys" \notin DOMAIN NoFile
      BY <1>1 DEF PackBuilt, NoFile
    <3> QED BY <3>1
  <2> QED BY <2>1, <1>2, <1>6 DEF Mounts
<1>9. dotPart.docs = [s \in 1..Len(Sources) |-> s]
  BY <1>1, <1>3, CountsIs
<1>10. dotPart.fts = [k \in 1..Len(dotPart.chunks) |-> k]
  BY <1>3, <1>4, CountsIs
<1>11. [k \in 1..Len(dotPart.vec) |-> dotPart.vec[k].chunk] = dotPart.fts
  <2>1. \A k \in 1..Len(dotPart.chunks) : dotPart.vec[k].chunk = k
    BY <1>3, <1>4, <1>5 DEF Counts
  <2> QED BY <2>1, <1>4, <1>10
<1>12. {dotPart.chunks[k] : k \in 1..Len(dotPart.chunks)} = AllChunks
  <2>1. \A s \in 1..Len(Sources) : \A m \in 1..Sources[s] : Inserted(s, m)
    BY <1>1, <1>3 DEF Inserted
  <2>2. \A s \in 1..Len(Sources) : \A m \in 1..Sources[s] :
          \E k \in 1..Len(dotPart.chunks) : dotPart.chunks[k] = [doc |-> s, nth |-> m]
    BY <1>3, <2>1 DEF ChunksSoFar
  <2>3. \A k \in 1..Len(dotPart.chunks) :
          /\ dotPart.chunks[k].doc \in 1..Len(Sources)
          /\ dotPart.chunks[k].nth \in 1..Sources[dotPart.chunks[k].doc]
          /\ dotPart.chunks[k] = [doc |-> dotPart.chunks[k].doc, nth |-> dotPart.chunks[k].nth]
    <3>1. \A k \in 1..Len(dotPart.chunks) : dotPart.chunks[k] \in ChunkRow
      BY <1>2
    <3>2. \A p \in ChunkRow : p = [doc |-> p.doc, nth |-> p.nth]
      BY DEF ChunkRow
    <3> QED BY <1>3, <3>1, <3>2 DEF ChunksSoFar
  <2>4. \A p \in AllChunks : \E k \in 1..Len(dotPart.chunks) : dotPart.chunks[k] = p
    BY <2>2 DEF AllChunks
  <2>5. \A k \in 1..Len(dotPart.chunks) : dotPart.chunks[k] \in AllChunks
    <3>1. \A s \in 1..Len(Sources) : \A m \in 1..Sources[s] : [doc |-> s, nth |-> m] \in AllChunks
      BY DEF AllChunks
    <3> QED BY <2>3, <3>1
  <2> QED BY <2>4, <2>5
<1>13. \A j, k \in 1..Len(dotPart.chunks) : j < k => InOrder(dotPart.chunks[j], dotPart.chunks[k])
  BY <1>3 DEF ChunksSoFar
<1>14. BuiltWell'
  <2>1. Mounts(kpack)'
    BY <1>8 DEF Mounts
  <2> QED BY <2>1, <1>9, <1>10, <1>11, <1>12, <1>13 DEF BuiltWell
<1>15. Complete(kpack)'
  BY <1>7 DEF Complete
<1> QED BY <1>14, <1>15

LEMMA RenameKeeps ==
  ASSUME FileInv, RenamePart PROVE FileInv'
<1>1. /\ building = "embed" /\ chunk_at > Len(pending) /\ dotPart.keys = AllKeys
      /\ kpack' = dotPart /\ building' = "built" /\ Over /\ installed' = installed
      /\ mounted' = mounted
  BY DEF RenamePart
<1>2. BuiltWell' /\ Complete(kpack)'
  BY <1>1, WholeIsBuilt
<1>3. Place'
  <2>1. Len(Sources) \in Nat
    BY PackFileAssumption
  <2> QED BY <2>1, <1>1 DEF Over, Place
<1>4. Mounted' /\ installed' \in Embedders
  BY <1>1 DEF FileInv, Mounted
<1> QED BY <1>1, <1>2, <1>3, <1>4 DEF FileInv, Building

\* A file that is mounted is complete and names the embedder installed.
LEMMA MountKeeps ==
  ASSUME FileInv, Mount PROVE FileInv'
<1>1. /\ Mounts(kpack) /\ mounted' = [file |-> kpack, by |-> installed]
      /\ UNCHANGED <<installed, kpack, dotPart, building, source_at, chunk_at, pending>>
  BY DEF Mount, Where
<1>2. Complete(kpack) /\ kpack.keys = AllKeys /\ kpack.embedder = installed
  BY <1>1 DEF FileInv, Mounts
<1>3. Mounted'
  BY <1>1, <1>2 DEF Mounted, Complete
<1>4. Place'
  BY <1>1 DEF FileInv, Place
<1>5. BuiltWell => BuiltWell'
  BY <1>1 DEF BuiltWell, Mounts
<1>6. Complete(kpack) => Complete(kpack)'
  BY <1>1 DEF Complete
<1>7. Building' => Building /\ (Rows => Rows') /\ (Vectors => Vectors') /\ (Keys => Keys')
  <2>1. \A s, m : Inserted(s, m)' <=> Inserted(s, m)
    BY <1>1 DEF Inserted
  <2>2. ChunksSoFar(dotPart.chunks) => ChunksSoFar(dotPart.chunks)'
    BY <1>1, <2>1 DEF ChunksSoFar
  <2> QED BY <1>1, <2>2 DEF Building, Rows, Vectors, Keys
<1> QED BY <1>1, <1>2, <1>3, <1>4, <1>5, <1>6, <1>7 DEF FileInv

\* The other steps leave no build at work.
LEMMA OthersKeep ==
  ASSUME FileInv, Discard \/ FailBuild \/ KillBuild \/ Arrive \/ Update PROVE FileInv'
<1>1. CASE Discard
  <2>1. /\ building' = "open" /\ dotPart' = NoFile /\ kpack' = kpack /\ mounted' = mounted
        /\ installed' = installed
    BY <1>1 DEF Discard, App
  <2>2. Place'
    BY <1>1 DEF Discard, FileInv, Place, Where
  <2>3. Mounted' /\ (kpack' = NoFile \/ Complete(kpack)')
    BY <2>1 DEF FileInv, Mounted, Complete
  <2> QED BY <2>1, <2>2, <2>3 DEF FileInv, Building
<1>2. CASE FailBuild
  BY <1>2, FileRests DEF FailBuild, App, FileInv
<1>3. CASE KillBuild
  BY <1>3, FileRests DEF KillBuild, FileInv
<1>4. CASE Arrive
  <2>1. Complete(kpack)'
    BY <1>4, ForeignAssumption DEF Arrive, Complete
  <2>2. Place'
    BY <1>4 DEF Arrive, FileInv, Place, Where
  <2>3. Mounted'
    BY <1>4 DEF Arrive, FileInv, Mounted
  <2> QED BY <1>4, <2>1, <2>2, <2>3 DEF Arrive, FileInv, Building
<1>5. CASE Update
  <2>1. Complete(kpack) => Complete(kpack)'
    BY <1>5 DEF Update, Complete
  <2>2. Place'
    BY <1>5 DEF Update, FileInv, Place, Where
  <2> QED BY <1>5, <2>1, <2>2 DEF Update, FileInv, Building, Mounted
<1> QED BY <1>1, <1>2, <1>3, <1>4, <1>5

LEMMA FileStutters == ASSUME FileInv, UNCHANGED fvars PROVE FileInv'
<1>1. UNCHANGED <<installed, kpack, dotPart, building, source_at, chunk_at, pending, mounted>>
  BY DEF fvars
<1>2. Place' /\ Mounted'
  BY <1>1 DEF FileInv, Place, Mounted
<1>3. (BuiltWell => BuiltWell') /\ (Complete(kpack) => Complete(kpack)')
  BY <1>1 DEF BuiltWell, Mounts, Complete
<1>4. (Rows => Rows') /\ (Vectors => Vectors') /\ (Keys => Keys') /\ (Building' => Building)
  <2>1. \A s, m : Inserted(s, m)' <=> Inserted(s, m)
    BY <1>1 DEF Inserted
  <2>2. ChunksSoFar(dotPart.chunks) => ChunksSoFar(dotPart.chunks)'
    BY <1>1, <2>1 DEF ChunksSoFar
  <2> QED BY <1>1, <2>2 DEF Building, Rows, Vectors, Keys
<1> QED BY <1>1, <1>2, <1>3, <1>4 DEF FileInv

LEMMA FileStep == FileInv /\ [FNext]_fvars => FileInv'
<1> SUFFICES ASSUME FileInv, [FNext]_fvars PROVE FileInv'
  OBVIOUS
<1>1. CASE Discard \/ FailBuild \/ KillBuild \/ Arrive \/ Update
  BY <1>1, OthersKeep
<1>2. CASE OpenOrCreate
  BY <1>2, OpenKeeps
<1>3. CASE InsertDoc
  BY <1>3, DocKeeps
<1>4. CASE InsertChunk
  BY <1>4, ChunkKeeps
<1>5. CASE InsertFts
  BY <1>5, FtsKeeps
<1>6. CASE NextSource
  BY <1>6, SourceKeeps
<1>7. CASE Pass2
  BY <1>7, Pass2Keeps
<1>8. CASE InsertEmbedding
  BY <1>8, EmbeddingKeeps
<1>9. CASE WriteManifest
  BY <1>9, ManifestKeeps
<1>10. CASE RenamePart
  BY <1>10, RenameKeeps
<1>11. CASE Mount
  BY <1>11, MountKeeps
<1>12. CASE UNCHANGED fvars
  BY <1>12, FileStutters
<1> QED BY <1>1, <1>2, <1>3, <1>4, <1>5, <1>6, <1>7, <1>8, <1>9, <1>10, <1>11, <1>12 DEF FNext

\* Whatever the sources, the embedders that are installed in turn and the files
\* that come from elsewhere: a pack that was built mounts and holds every chunk
\* once, in order, with its row in either index; and what is mounted was embedded
\* with the embedder that questions are.
THEOREM PacksRoundTrip == FSpec => []PackRoundTrip
<1>1. FileInv => PackRoundTrip
  BY DEF FileInv, BuiltWell, Mounted, PackRoundTrip
<1> QED BY <1>1, FileInit, FileStep, PTL DEF FSpec

-----------------------------------------------------------------------------
(* Answers *)

\* What comes before x in a set.
Lower(S, R, x) == {y \in S : <<y, x>> \in R}
Orders(R, S) ==
  /\ \A x \in S : <<x, x>> \notin R
  /\ \A x, y, z \in S : <<x, y>> \in R /\ <<y, z>> \in R => <<x, z>> \in R
  /\ \A x, y \in S : x = y \/ <<x, y>> \in R \/ <<y, x>> \in R

\* Elements of a finite set in an order have as many before them as their ranks
\* say, and every rank is that of one of them.
LEMMA Ranks ==
  ASSUME NEW S, NEW R, IsFiniteSet(S), Orders(R, S)
  PROVE  /\ Cardinality(S) \in Nat
         /\ \A x \in S : /\ IsFiniteSet(Lower(S, R, x))
                         /\ Cardinality(Lower(S, R, x)) \in 0..(Cardinality(S) - 1)
         /\ \A x, y \in S : <<x, y>> \in R =>
              Cardinality(Lower(S, R, x)) < Cardinality(Lower(S, R, y))
         /\ \A m \in 1..Cardinality(S) : \E x \in S : Cardinality(Lower(S, R, x)) = m - 1
<1>1. Cardinality(S) \in Nat
  BY FS_CardinalityType
<1>2. ASSUME NEW x \in S
      PROVE  /\ IsFiniteSet(Lower(S, R, x))
             /\ Cardinality(Lower(S, R, x)) \in 0..(Cardinality(S) - 1)
  <2>1. Lower(S, R, x) \in SUBSET S /\ x \notin Lower(S, R, x)
    BY DEF Lower, Orders
  <2>2. /\ IsFiniteSet(Lower(S, R, x)) /\ Cardinality(Lower(S, R, x)) <= Cardinality(S)
        /\ Cardinality(S) = Cardinality(Lower(S, R, x)) => S = Lower(S, R, x)
    BY <2>1, FS_Subset
  <2>3. Cardinality(Lower(S, R, x)) \in Nat
    BY <2>2, FS_CardinalityType
  <2> QED BY <1>1, <2>1, <2>2, <2>3
<1>3. ASSUME NEW x \in S, NEW y \in S, <<x, y>> \in R
      PROVE  Cardinality(Lower(S, R, x)) < Cardinality(Lower(S, R, y))
  <2>1. Lower(S, R, x) \in SUBSET Lower(S, R, y) /\ Lower(S, R, x) # Lower(S, R, y)
    BY <1>3 DEF Lower, Orders
  <2>2. IsFiniteSet(Lower(S, R, y))
    BY <1>2
  <2>3. /\ Cardinality(Lower(S, R, x)) <= Cardinality(Lower(S, R, y))
        /\ Cardinality(Lower(S, R, y)) # Cardinality(Lower(S, R, x))
    BY <2>1, <2>2, FS_Subset
  <2> QED BY <1>1, <1>2, <2>3
<1>4. \A m \in 1..Cardinality(S) : \E x \in S : Cardinality(Lower(S, R, x)) = m - 1
  <2> DEFINE T == 0..(Cardinality(S) - 1)
  <2> DEFINE f == [x \in S |-> Cardinality(Lower(S, R, x))]
  <2>1. f \in Injection(S, T)
    <3>1. f \in [S -> T]
      BY <1>2
    <3>2. \A x, y \in S : f[x] = f[y] => x = y
      <4>1. \A x \in S : f[x] \in T
        BY <3>1
      <4>2. \A x, y \in S : <<x, y>> \in R => f[x] < f[y]
        BY <1>3
      <4>3. \A x, y \in S : x = y \/ <<x, y>> \in R \/ <<y, x>> \in R
        BY DEF Orders
      <4>4. \A x \in S : f[x] \in Int
        BY <1>1, <4>1
      <4> HIDE DEF f, T
      <4>5. ASSUME NEW x \in S, NEW y \in S, f[x] = f[y] PROVE x = y
        <5>1. ~(<<x, y>> \in R) /\ ~(<<y, x>> \in R)
          <6>1. f[x] \in Int /\ f[y] \in Int
            BY <4>4
          <6>2. ~(f[x] < f[y]) /\ ~(f[y] < f[x])
            BY <4>5, <6>1
          <6> QED BY <4>2, <6>2
        <5> QED BY <4>3, <5>1
      <4> QED BY <4>5
    <3> QED BY <3>1, <3>2 DEF Injection, IsInjective
  <2>2. IsFiniteSet(T) /\ Cardinality(T) = Cardinality(S)
    BY <1>1, FS_Interval
  <2>3. f \in Surjection(S, T)
    <3> HIDE DEF f, T
    <3> QED BY <2>1, <2>2, FS_Injection
  <2>4. \A t \in T : \E x \in S : f[x] = t
    BY <2>3 DEF Surjection
  <2> QED BY <2>4, <1>1
<1> QED BY <1>1, <1>2, <1>3, <1>4

\* So a set in order is as long as the set, holds nothing else, and has each
\* element at its rank.
Ranked(q, S, R) ==
  /\ q \in Seq(S) /\ Len(q) = Cardinality(S)
  /\ DOMAIN q = 1..Cardinality(S) /\ Cardinality(S) \in Nat
  /\ \A m \in DOMAIN q : q[m] \in S /\ Cardinality(Lower(S, R, q[m])) = m - 1
  /\ \A x \in S : /\ Cardinality(Lower(S, R, x)) + 1 \in DOMAIN q
                  /\ q[Cardinality(Lower(S, R, x)) + 1] = x
LEMMA OrderedRanks ==
  ASSUME NEW S, NEW R, IsFiniteSet(S), Orders(R, S),
         NEW q, q = [m \in 1..Cardinality(S) |-> q[m]],
         \A m \in DOMAIN q : q[m] = CHOOSE x \in S : Cardinality(Lower(S, R, x)) = m - 1
  PROVE  Ranked(q, S, R)
<1>1. /\ Cardinality(S) \in Nat
      /\ \A x \in S : Cardinality(Lower(S, R, x)) \in 0..(Cardinality(S) - 1)
      /\ \A x, y \in S : <<x, y>> \in R =>
              Cardinality(Lower(S, R, x)) < Cardinality(Lower(S, R, y))
      /\ \A m \in 1..Cardinality(S) : \E x \in S : Cardinality(Lower(S, R, x)) = m - 1
  BY Ranks
<1>2. DOMAIN q = 1..Cardinality(S)
  OBVIOUS
<1>3. \A m \in DOMAIN q : q[m] \in S /\ Cardinality(Lower(S, R, q[m])) = m - 1
  BY <1>1
<1>4. ASSUME NEW x \in S
      PROVE  /\ Cardinality(Lower(S, R, x)) + 1 \in DOMAIN q
             /\ q[Cardinality(Lower(S, R, x)) + 1] = x
  <2>1. PICK m : m = Cardinality(Lower(S, R, x)) + 1
    OBVIOUS
  <2>2. m \in DOMAIN q /\ m - 1 = Cardinality(Lower(S, R, x))
    BY <1>1, <1>2, <2>1
  <2>3. q[m] \in S /\ Cardinality(Lower(S, R, q[m])) = Cardinality(Lower(S, R, x))
    BY <1>3, <2>2
  <2>4. q[m] = x \/ <<q[m], x>> \in R \/ <<x, q[m]>> \in R
    BY <2>3 DEF Orders
  <2>5. q[m] = x
    <3>1. PICK y \in S : y = q[m]
      BY <2>3
    <3>2. /\ Cardinality(Lower(S, R, y)) = Cardinality(Lower(S, R, x))
          /\ Cardinality(Lower(S, R, x)) \in Int
      BY <1>1, <2>3, <3>1
    <3>3. ~(<<y, x>> \in R) /\ ~(<<x, y>> \in R)
      BY <1>1, <3>2
    <3> QED BY <2>4, <3>1, <3>3
  <2> QED BY <2>1, <2>2, <2>5
<1>5. q \in Seq(S) /\ Len(q) = Cardinality(S)
  <2>1. q \in [1..Cardinality(S) -> S]
    BY <1>2, <1>3
  <2>2. q \in Seq(S)
    BY <1>1, <2>1
  <2>3. DOMAIN q = 1..Len(q) /\ Len(q) \in Nat
    BY ONLY <2>2
  <2> QED BY <1>1, <1>2, <2>2, <2>3
<1> QED BY <1>1, <1>2, <1>3, <1>4, <1>5 DEF Ranked

\* Numbers, and candidates by their rank and then by their pack.
Less(S) == {s \in S \X S : s[1] < s[2]}
LEMMA NumbersRanked ==
  ASSUME NEW S \in SUBSET Nat, IsFiniteSet(S), NEW q,
         q = [m \in 1..Cardinality(S) |-> CHOOSE x \in S : Cardinality({y \in S : y < x}) = m - 1]
  PROVE  Ranked(q, S, Less(S))
<1>1. \A x, y \in S : <<x, y>> \in Less(S) <=> x < y
  BY DEF Less
<1>2. Orders(Less(S), S)
  <2>1. \A x \in S : x \in Nat
    OBVIOUS
  <2>2. \A x, y, z \in S : (x < y /\ y < z) => x < z
    BY <2>1
  <2>3. \A x, y \in S : (x = y \/ x < y \/ y < x) /\ ~(x < x)
    BY <2>1
  <2> HIDE DEF Less
  <2> QED BY <1>1, <2>2, <2>3 DEF Orders
<1>3. \A x \in S : Lower(S, Less(S), x) = {y \in S : y < x}
  BY <1>1 DEF Lower
<1>4. q = [m \in 1..Cardinality(S) |-> q[m]]
  <2> DEFINE e(m) == CHOOSE x \in S : Cardinality({y \in S : y < x}) = m - 1
  <2>1. q = [m \in 1..Cardinality(S) |-> e(m)]
    OBVIOUS
  <2> HIDE DEF e
  <2> QED BY ONLY <2>1
<1>5. \A m \in DOMAIN q : q[m] = CHOOSE x \in S : Cardinality(Lower(S, Less(S), x)) = m - 1
  <2>1. \A m \in DOMAIN q : q[m] = CHOOSE x \in S : Cardinality({y \in S : y < x}) = m - 1
    OBVIOUS
  <2>2. \A m : (CHOOSE x \in S : Cardinality({y \in S : y < x}) = m - 1)
                = (CHOOSE x \in S : Cardinality(Lower(S, Less(S), x)) = m - 1)
    BY <1>3
  <2> QED BY <2>1, <2>2
<1> QED BY <1>2, <1>4, <1>5, OrderedRanks

\* The candidates of packs, each of which has hits numbered up to some number.
Ranking(S) == {s \in S \X S : s[1][2] < s[2][2] \/ (s[1][2] = s[2][2] /\ s[1][1] < s[2][1])}
LEMMA RankingOrders == ASSUME NEW S \in SUBSET (Nat \X Nat) PROVE Orders(Ranking(S), S)
<1>1. \A x, y \in S : <<x, y>> \in Ranking(S) <=> x[2] < y[2] \/ (x[2] = y[2] /\ x[1] < y[1])
  BY DEF Ranking
<1>5. \A x \in S : x[1] \in Nat /\ x[2] \in Nat /\ x = <<x[1], x[2]>>
  OBVIOUS
<1> DEFINE B(x, y) == x[2] < y[2] \/ (x[2] = y[2] /\ x[1] < y[1])
<1>2. \A x, y, z \in S : (B(x, y) /\ B(y, z)) => B(x, z)
  BY <1>5
<1>3. \A x, y \in S : (x = y \/ B(x, y) \/ B(y, x)) /\ ~B(x, x)
  BY <1>5
<1>4. \A x, y \in S : <<x, y>> \in Ranking(S) <=> B(x, y)
  BY <1>1
<1> HIDE DEF B
<1> QED BY <1>2, <1>3, <1>4 DEF Orders

LEMMA CandidatesRanked ==
  ASSUME NEW S \in SUBSET (Nat \X Nat), IsFiniteSet(S), NEW q,
         q = [m \in 1..Cardinality(S) |-> CHOOSE x \in S :
                Cardinality({y \in S : y[2] < x[2] \/ (y[2] = x[2] /\ y[1] < x[1])}) = m - 1]
  PROVE  Ranked(q, S, Ranking(S))
<1>1. \A x, y \in S : <<x, y>> \in Ranking(S) <=> x[2] < y[2] \/ (x[2] = y[2] /\ x[1] < y[1])
  BY DEF Ranking
<1>2. Orders(Ranking(S), S)
  BY RankingOrders
<1>3. \A x \in S : Lower(S, Ranking(S), x)
        = {y \in S : y[2] < x[2] \/ (y[2] = x[2] /\ y[1] < x[1])}
  BY <1>1 DEF Lower
<1>5. q = [m \in 1..Cardinality(S) |-> q[m]]
  <2> DEFINE e(m) == CHOOSE x \in S :
                       Cardinality({y \in S : y[2] < x[2] \/ (y[2] = x[2] /\ y[1] < x[1])}) = m - 1
  <2>1. q = [m \in 1..Cardinality(S) |-> e(m)]
    OBVIOUS
  <2> HIDE DEF e
  <2> QED BY ONLY <2>1
<1>6. \A m \in DOMAIN q : q[m] = CHOOSE x \in S : Cardinality(Lower(S, Ranking(S), x)) = m - 1
  <2>1. \A m \in DOMAIN q : q[m] = CHOOSE x \in S :
             Cardinality({y \in S : y[2] < x[2] \/ (y[2] = x[2] /\ y[1] < x[1])}) = m - 1
    OBVIOUS
  <2>2. \A m : (CHOOSE x \in S :
                  Cardinality({y \in S : y[2] < x[2] \/ (y[2] = x[2] /\ y[1] < x[1])}) = m - 1)
                = (CHOOSE x \in S : Cardinality(Lower(S, Ranking(S), x)) = m - 1)
    BY <1>3
  <2> QED BY <2>1, <2>2
<1> QED BY <1>2, <1>5, <1>6, OrderedRanks

LEMMA ImageFinite ==
  ASSUME NEW S, IsFiniteSet(S), NEW f, f = [x \in S |-> f[x]]
  PROVE  IsFiniteSet({f[x] : x \in S})
<1> DEFINE T == {f[x] : x \in S}
<1>1. f \in Surjection(S, T)
  BY DEF Surjection
<1> HIDE DEF T
<1>2. IsFiniteSet(T)
  BY <1>1, FS_Surjection
<1> QED BY <1>2 DEF T

Candidates(ks) == UNION {{<<k, r>> : r \in DOMAIN hits[k]} : k \in ks}
Fuses == {Fused(packs[k]) : k \in DOMAIN packs}
Entry(x) == <<x[1], hits[x[1]][x[2]]>>

\* The lists are as long as there are chunks found.
LEMMA FusesAreLists ==
  ASSUME packs \in Queries, NEW h \in Fuses
  PROVE  \E m \in Nat : DOMAIN h = 1..m /\ (h # << >> => m >= 1)
<1>1. PICK k \in DOMAIN packs : h = Fused(packs[k])
  BY DEF Fuses
<1>2. packs[k].dense \in Seq(Nat) /\ packs[k].lexical \in Seq(Nat)
  BY RetrievalAssumption
<1>3. ASSUME NEW s \in Seq(Nat) PROVE IsFiniteSet(ToSet(s))
  <2>1. Len(s) \in Nat /\ DOMAIN s = 1..Len(s) /\ s = [j \in 1..Len(s) |-> s[j]]
    OBVIOUS
  <2>2. IsFiniteSet(1..Len(s))
    <3>1. 1 \in Int /\ Len(s) \in Int
      BY <2>1
    <3> QED BY ONLY <3>1, FS_Interval
  <2>3. IsFiniteSet({s[j] : j \in 1..Len(s)})
    BY <2>1, <2>2, ImageFinite
  <2> QED BY <2>1, <2>3 DEF ToSet
<1>4. IsFiniteSet(Found(packs[k]))
  <2>1. IsFiniteSet(ToSet(packs[k].dense)) /\ IsFiniteSet(ToSet(packs[k].lexical))
    BY <1>2, <1>3
  <2> QED BY <2>1, FS_Union DEF Found
<1>5. Cardinality(Found(packs[k])) \in Nat
  BY <1>4, FS_CardinalityType
<1>6. DOMAIN h = 1..Cardinality(Found(packs[k]))
  BY <1>1 DEF Fused, Ordered
<1>7. ASSUME Cardinality(Found(packs[k])) = 0 PROVE h = << >>
  <2>1. DOMAIN h = {}
    BY <1>6, <1>7
  <2>2. h = [r \in {} |-> h[r]]
    BY <1>1, <2>1 DEF Fused, Ordered
  <2> QED BY <2>2
<1> QED BY <1>5, <1>6, <1>7

LEMMA CandidatesFinite ==
  ASSUME packs \in Queries, NEW ks \in SUBSET DOMAIN packs, \A k \in ks : hits[k] \in Fuses
  PROVE  Candidates(ks) \in SUBSET (Nat \X Nat) /\ IsFiniteSet(Candidates(ks))
<1>1. Len(packs) \in Nat /\ DOMAIN packs = 1..Len(packs) /\ \A k \in ks : k \in Nat
  BY RetrievalAssumption
<1>2. IsFiniteSet(ks)
  <2>1. 1 \in Int /\ Len(packs) \in Int
    BY <1>1
  <2>2. IsFiniteSet(1..Len(packs))
    BY ONLY <2>1, FS_Interval
  <2> QED BY <1>1, <2>2, FS_Subset
<1>3. ASSUME NEW k \in ks
      PROVE  /\ {<<k, r>> : r \in DOMAIN hits[k]} \in SUBSET (Nat \X Nat)
             /\ IsFiniteSet({<<k, r>> : r \in DOMAIN hits[k]})
  <2>1. PICK m \in Nat : DOMAIN hits[k] = 1..m
    BY FusesAreLists
  <2>2. IsFiniteSet(1..m)
    <3>1. 1 \in Int /\ m \in Int
      OBVIOUS
    <3> QED BY ONLY <3>1, FS_Interval
  <2> DEFINE f == [r \in 1..m |-> <<k, r>>]
  <2>3. IsFiniteSet({f[r] : r \in 1..m})
    <3>1. f = [r \in 1..m |-> f[r]]
      OBVIOUS
    <3> HIDE DEF f
    <3> QED BY <2>2, <3>1, ImageFinite
  <2>4. {<<k, r>> : r \in DOMAIN hits[k]} = {f[r] : r \in 1..m}
    BY <2>1
  <2>5. {<<k, r>> : r \in DOMAIN hits[k]} \in SUBSET (Nat \X Nat)
    <3>1. k \in Nat /\ \A r \in DOMAIN hits[k] : r \in Nat
      BY <1>1, <2>1
    <3> QED BY ONLY <3>1
  <2> QED BY <2>3, <2>4, <2>5
<1>4. IsFiniteSet(Candidates(ks))
  <2> DEFINE F(k) == {<<k, r>> : r \in DOMAIN hits[k]}
  <2> DEFINE f == [k \in ks |-> F(k)]
  <2>1. IsFiniteSet({f[k] : k \in ks})
    <3>1. f = [k \in ks |-> f[k]]
      OBVIOUS
    <3> HIDE DEF f
    <3> QED BY <1>2, <3>1, ImageFinite
  <2>2. \A T \in {f[k] : k \in ks} : IsFiniteSet(T)
    BY <1>3
  <2>3. IsFiniteSet(UNION {f[k] : k \in ks})
    <3> HIDE DEF f
    <3> QED BY <2>1, <2>2, FS_UNION
  <2>4. Candidates(ks) = UNION {f[k] : k \in ks}
    BY DEF Candidates
  <2> QED BY <2>3, <2>4
<1> QED BY <1>3, <1>4 DEF Candidates

LEMMA UnifiedRanked ==
  ASSUME packs \in Queries, NEW ks \in SUBSET DOMAIN packs, \A k \in ks : hits[k] \in Fuses
  PROVE  Ranked(Unified(ks), Candidates(ks), Ranking(Candidates(ks)))
<1> DEFINE S == Candidates(ks)
<1>1. S \in SUBSET (Nat \X Nat) /\ IsFiniteSet(S)
  BY CandidatesFinite
<1>2. Unified(ks) = [m \in 1..Cardinality(S) |-> CHOOSE x \in S :
                Cardinality({y \in S : y[2] < x[2] \/ (y[2] = x[2] /\ y[1] < x[1])}) = m - 1]
  BY DEF Unified, Ordered, Candidates
<1> HIDE DEF S
<1>3. Ranked(Unified(ks), S, Ranking(S))
  BY <1>1, <1>2, CandidatesRanked
<1> QED BY <1>3 DEF S

\* Where the walk is: what it has selected it has passed, and of each candidate
\* that it has passed the section is among those selected, by a candidate that is
\* not behind it.
Walked ==
  /\ at \in Nat \ {0} /\ Len(selected) < at
  /\ selected \in Seq({Entry(x) : x \in Candidates(passing)})
  /\ at <= Len(unified) + 1
  /\ \A r \in DOMAIN selected : \E b \in 1..(at - 1) : selected[r] = Entry(unified[b])
  /\ \A p \in 1..(at - 1) : HasRow(Entry(unified[p])) =>
       \E r \in DOMAIN selected : \E b \in 1..p :
         Key(selected[r]) = Key(Entry(unified[p])) /\ selected[r] = Entry(unified[b])
Judged ==
  /\ Len(hits) = Len(packs) /\ passing \in SUBSET DOMAIN packs
  /\ \A k \in passing : hits[k] # << >>
  /\ unified = Unified(passing)
QueryInv ==
  /\ packs \in Queries
  /\ phase \in {"search", "select", "grounded", "noEvidence"}
  /\ hits \in Seq(Fuses) /\ Len(hits) <= Len(packs)
  /\ phase # "search" => Judged
  /\ phase = "search" => at = 1 /\ selected = << >>
  /\ phase = "select" => Walked
  /\ EachPackHeard

LEMMA QueryFacts ==
  ASSUME QueryInv
  PROVE  /\ Len(packs) \in Nat /\ DOMAIN packs = 1..Len(packs)
         /\ Len(hits) \in Nat /\ DOMAIN hits = 1..Len(hits)
         /\ \A k \in 1..Len(hits) : hits[k] \in Fuses
<1>1. hits \in Seq(Fuses)
  BY DEF QueryInv
<1>2. Len(packs) \in Nat /\ DOMAIN packs = 1..Len(packs)
  BY RetrievalAssumption DEF QueryInv
<1> HIDE DEF Fuses
<1> QED BY <1>1, <1>2

\* What is judged: the candidates, each at its rank.
LEMMA JudgedFacts ==
  ASSUME packs \in Queries, hits \in Seq(Fuses), Judged
  PROVE  /\ DOMAIN packs = 1..Len(packs) /\ Len(packs) \in Nat
         /\ Ranked(unified, Candidates(passing), Ranking(Candidates(passing)))
         /\ Candidates(passing) \in SUBSET (Nat \X Nat) /\ IsFiniteSet(Candidates(passing))
         /\ \A k \in passing : <<k, 1>> \in Candidates(passing)
         /\ \A x \in Candidates(passing) :
              x = <<x[1], x[2]>> /\ x[1] \in passing /\ x[2] \in Nat \ {0}
<1>1. DOMAIN packs = 1..Len(packs) /\ Len(packs) \in Nat
  BY RetrievalAssumption
<1>2. passing \in SUBSET DOMAIN packs /\ \A k \in passing : hits[k] \in Fuses
  <2>1. DOMAIN hits = 1..Len(hits) /\ \A k \in DOMAIN hits : hits[k] \in Fuses
    <3> HIDE DEF Fuses
    <3> QED OBVIOUS
  <2> QED BY <1>1, <2>1 DEF Judged
<1>3. Ranked(unified, Candidates(passing), Ranking(Candidates(passing)))
  <2>1. Ranked(Unified(passing), Candidates(passing), Ranking(Candidates(passing)))
    BY <1>2, UnifiedRanked
  <2> QED BY <2>1 DEF Judged
<1>4. Candidates(passing) \in SUBSET (Nat \X Nat) /\ IsFiniteSet(Candidates(passing))
  BY <1>2, CandidatesFinite
<1>5. \A k \in passing : 1 \in DOMAIN hits[k]
  <2> SUFFICES ASSUME NEW k \in passing PROVE 1 \in DOMAIN hits[k]
    OBVIOUS
  <2>1. hits[k] \in Fuses /\ hits[k] # << >>
    BY <1>2 DEF Judged
  <2>2. PICK m \in Nat : DOMAIN hits[k] = 1..m /\ m >= 1
    BY <2>1, FusesAreLists
  <2> QED BY <2>2
<1>6. \A k \in passing : \A r \in DOMAIN hits[k] : r \in Nat \ {0}
  <2> SUFFICES ASSUME NEW k \in passing PROVE \A r \in DOMAIN hits[k] : r \in Nat \ {0}
    OBVIOUS
  <2>1. PICK m \in Nat : DOMAIN hits[k] = 1..m
    BY <1>2, FusesAreLists
  <2> QED BY <2>1
<1>7. \A x \in Candidates(passing) : \E k \in passing : \E r \in DOMAIN hits[k] : x = <<k, r>>
  BY DEF Candidates
<1>8. \A k \in passing : <<k, 1>> \in Candidates(passing)
  BY <1>5 DEF Candidates
<1> QED BY <1>1, <1>3, <1>4, <1>6, <1>7, <1>8

\* The best chunk of a pack that passes stands among as many as there are packs.
LEMMA BestIsEarly ==
  ASSUME packs \in Queries, hits \in Seq(Fuses), Judged, NEW k \in passing
  PROVE  \E r \in 1..Len(packs) :
           /\ r <= Len(unified) /\ unified[r] = <<k, 1>>
           /\ \A b \in 1..r : unified[b] \in Candidates(passing)
                /\ (unified[b][1] = k => unified[b] = <<k, 1>>)
<1> DEFINE S == Candidates(passing)
<1> DEFINE R == Ranking(S)
<1> DEFINE L == Lower(S, R, <<k, 1>>)
<1>1. /\ Ranked(unified, S, R) /\ S \in SUBSET (Nat \X Nat) /\ IsFiniteSet(S) /\ <<k, 1>> \in S
      /\ DOMAIN packs = 1..Len(packs) /\ Len(packs) \in Nat /\ passing \in SUBSET DOMAIN packs
      /\ \A x \in S : x = <<x[1], x[2]>> /\ x[1] \in passing /\ x[2] \in Nat \ {0}
  BY JudgedFacts DEF Judged
<1>2. /\ Cardinality(L) + 1 \in DOMAIN unified /\ unified[Cardinality(L) + 1] = <<k, 1>>
      /\ DOMAIN unified = 1..Cardinality(S) /\ Cardinality(S) \in Nat
      /\ \A m \in DOMAIN unified :
           unified[m] \in S /\ Cardinality(Lower(S, R, unified[m])) = m - 1
  <2> HIDE DEF S, R
  <2> QED BY <1>1 DEF Ranked
<1>3. \A x, y \in S : <<x, y>> \in R <=> x[2] < y[2] \/ (x[2] = y[2] /\ x[1] < y[1])
  <2> HIDE DEF S
  <2> QED BY DEF Ranking
<1>4. \A x \in L : x \in S /\ x[2] = 1 /\ x # <<k, 1>>
  <2> SUFFICES ASSUME NEW x \in L PROVE x \in S /\ x[2] = 1 /\ x # <<k, 1>>
    OBVIOUS
  <2>1. x \in S /\ <<x, <<k, 1>>>> \in R
    BY DEF Lower
  <2>2. x[2] < 1 \/ (x[2] = 1 /\ x[1] < k)
    BY <1>1, <1>3, <2>1
  <2>3. x[2] \in Nat \ {0} /\ k \in Nat
    BY <1>1, <2>1
  <2> QED BY <2>1, <2>2, <2>3
<1>5. IsFiniteSet(L) /\ Cardinality(L) \in Nat
  <2>1. L \in SUBSET S
    BY DEF Lower
  <2> HIDE DEF L
  <2> QED BY <1>1, <2>1, FS_Subset, FS_CardinalityType
<1>6. Cardinality(L) + 1 <= Len(packs)
  <2> DEFINE T == L \cup {<<k, 1>>}
  <2> DEFINE f == [x \in T |-> x[1]]
  <2>1. IsFiniteSet(T) /\ Cardinality(T) = Cardinality(L) + 1
    <3>1. <<k, 1>> \notin L
      BY <1>4
    <3> HIDE DEF L
    <3> QED BY <1>5, <3>1, FS_AddElement
  <2>2. f \in [T -> 1..Len(packs)] /\ \A x, y \in T : f[x] = f[y] => x = y
    <3>1. \A x \in T : x \in S /\ x[2] = 1
      BY <1>1, <1>4
    <3>2. \A x \in T : x[1] \in 1..Len(packs) /\ x = <<x[1], 1>>
      BY <1>1, <3>1
    <3> HIDE DEF T
    <3> QED BY <3>2
  <2>3. f \in Injection(T, 1..Len(packs))
    <3> HIDE DEF f, T
    <3> QED BY <2>2 DEF Injection, IsInjective
  <2>4. IsFiniteSet(1..Len(packs)) /\ Cardinality(1..Len(packs)) = Len(packs)
    <3>1. 1 \in Int /\ Len(packs) \in Int /\ (~(1 > Len(packs)) \/ Len(packs) = 0)
      BY <1>1
    <3>2. \/ Len(packs) = 0 /\ 1 > Len(packs)
          \/ ~(1 > Len(packs)) /\ Len(packs) - 1 + 1 = Len(packs)
      BY <1>1
    <3> QED BY <3>1, <3>2, FS_Interval
  <2>5. Cardinality(T) <= Cardinality(1..Len(packs))
    <3> HIDE DEF f, T
    <3> QED BY <2>3, <2>4, FS_Injection
  <2> QED BY <2>1, <2>4, <2>5
<1>7. PICK r : r = Cardinality(L) + 1
  OBVIOUS
<1>8. r \in 1..Len(packs) /\ unified[r] = <<k, 1>> /\ r <= Len(unified) /\ r \in DOMAIN unified
  <2>1. Len(unified) = Cardinality(S)
    <3> HIDE DEF S
    <3> QED BY <1>1 DEF Ranked
  <2>2. r \in 1..Len(packs)
    BY <1>1, <1>5, <1>6, <1>7
  <2>3. r \in DOMAIN unified /\ unified[r] = <<k, 1>>
    BY <1>2, <1>7
  <2>4. r <= Cardinality(S)
    BY <1>2, <2>3
  <2> QED BY <2>1, <2>2, <2>3, <2>4
<1>9. ASSUME NEW b \in 1..r
      PROVE  unified[b] \in S /\ (unified[b][1] = k => unified[b] = <<k, 1>>)
  <2>1. b \in DOMAIN unified
    BY <1>2, <1>8
  <2>2. unified[b] \in S
    BY <1>2, <2>1
  <2>3. CASE unified[b][1] = k /\ unified[b][2] # 1
    <3>1. unified[b][2] \in Nat \ {0} /\ 1 < unified[b][2]
      BY <1>1, <2>2, <2>3
    <3>2. <<<<k, 1>>, unified[b]>> \in R
      <4>1. <<k, 1>>[2] = 1
        OBVIOUS
      <4> QED BY <1>1, <1>3, <2>2, <3>1, <4>1
    <3>3. Cardinality(L) < Cardinality(Lower(S, R, unified[b]))
      <4>1. Orders(R, S)
        BY <1>1, RankingOrders
      <4> HIDE DEF S, R
      <4> QED BY <1>1, <2>2, <3>2, <4>1, Ranks
    <3>4. r - 1 < b - 1
      BY <1>2, <1>5, <1>7, <2>1, <3>3
    <3> QED BY <1>8, <3>4
  <2>4. CASE unified[b][2] = 1
    BY <1>1, <2>2, <2>4
  <2> QED BY <2>2, <2>3, <2>4
<1> QED BY <1>8, <1>9
LEMMA JudgedPrimed ==
  (packs \in Queries /\ hits \in Seq(Fuses) /\ Judged)'
    => Ranked(unified, Candidates(passing), Ranking(Candidates(passing)))'
<1>1. (packs \in Queries /\ hits \in Seq(Fuses) /\ Judged)
        => Ranked(unified, Candidates(passing), Ranking(Candidates(passing)))
  BY JudgedFacts
<1> QED BY <1>1, PTL


LEMMA QueryInit == QInit => QueryInv
<1> SUFFICES ASSUME QInit PROVE QueryInv
  OBVIOUS
<1>1. packs \in Queries /\ phase = "search" /\ hits = << >> /\ at = 1 /\ selected = << >>
  BY DEF QInit
<1>2. Len(packs) \in Nat
  BY <1>1, RetrievalAssumption
<1>3. hits \in Seq(Fuses) /\ Len(hits) <= Len(packs)
  <2> HIDE DEF Fuses
  <2> QED BY <1>1, <1>2
<1> QED BY <1>1, <1>3 DEF QueryInv, EachPackHeard

LEMMA SearchKeeps == ASSUME QueryInv, Search PROVE QueryInv'
<1>1. /\ phase = "search" /\ phase' = "search" /\ Len(hits) < Len(packs) /\ packs' = packs
      /\ at' = at /\ selected' = selected /\ hits' = Append(hits, Fused(packs[Len(hits) + 1]))
  BY DEF Search
<1>2. /\ packs \in Queries /\ hits \in Seq(Fuses) /\ at = 1 /\ selected = << >>
      /\ Len(packs) \in Nat /\ DOMAIN packs = 1..Len(packs) /\ Len(hits) \in Nat
  BY <1>1, QueryFacts DEF QueryInv
<1>3. Fused(packs[Len(hits) + 1]) \in Fuses
  <2>1. Len(hits) + 1 \in DOMAIN packs
    BY <1>1, <1>2
  <2> QED BY <2>1 DEF Fuses
<1>4. Fuses' = Fuses
  BY <1>1 DEF Fuses, Fused, Ordered, Found, Before, Num, Den
<1>5. hits' \in Seq(Fuses) /\ Len(hits') = Len(hits) + 1
  <2> DEFINE h == Fused(packs[Len(hits) + 1])
  <2>1. hits' = Append(hits, h) /\ h \in Fuses
    BY <1>1, <1>3
  <2> HIDE DEF Fuses, h
  <2> QED BY <1>2, <2>1
<1>6. hits' \in Seq(Fuses)' /\ Len(hits') <= Len(packs')
  BY <1>1, <1>2, <1>4, <1>5
<1> QED BY <1>1, <1>2, <1>6 DEF QueryInv, EachPackHeard

\* What a step that only walks on leaves alone.
LEMMA JudgedRests ==
  ASSUME Judged, UNCHANGED <<packs, hits, passing, unified>> PROVE Judged'
<1>1. Unified(passing)' = Unified(passing)
  BY DEF Unified, Ordered
<1> QED BY <1>1 DEF Judged

LEMMA GateKeeps == ASSUME QueryInv, Gate PROVE QueryInv'
<1>1. /\ phase = "search" /\ Len(hits) = Len(packs)
      /\ passing' = {k \in DOMAIN packs : Passing(k)}
      /\ unified' = Unified(passing') /\ phase' \in {"noEvidence", "select"}
      /\ UNCHANGED <<packs, hits, at, selected>>
  BY DEF Gate
<1>2. /\ packs \in Queries /\ hits \in Seq(Fuses) /\ at = 1 /\ selected = << >>
      /\ Len(packs) \in Nat /\ DOMAIN packs = 1..Len(packs) /\ Len(hits) \in Nat
      /\ Len(hits) <= Len(packs)
  BY <1>1, QueryFacts DEF QueryInv
<1>3. Fuses' = Fuses
  BY <1>1 DEF Fuses, Fused, Ordered, Found, Before, Num, Den
<1>4. Unified(passing)' = Unified(passing')
  BY <1>1 DEF Unified, Ordered
<1>5. Judged'
  <2>1. \A k \in passing' : k \in DOMAIN packs /\ hits[k] # << >>
    BY <1>1 DEF Passing, PassesGate
  <2> QED BY <1>1, <1>4, <2>1 DEF Judged
<1>6. hits' \in Seq(Fuses)' /\ packs' \in Queries
  BY <1>1, <1>2, <1>3
<1>7. Len(unified') \in Nat
  <2>1. /\ Ranked(unified', Candidates(passing)', Ranking(Candidates(passing)'))
    <3>1. packs' \in Queries /\ (hits \in Seq(Fuses))' /\ Judged'
      BY <1>5, <1>6
    <3> QED BY <3>1, JudgedPrimed
  <2> QED BY <2>1 DEF Ranked
<1>8. Walked'
  <2>1. at' = 1 /\ selected' = << >>
    BY <1>1, <1>2
  <2>2. selected' \in Seq({Entry(x) : x \in Candidates(passing)}')
    <3> DEFINE A == {Entry(x) : x \in Candidates(passing)}'
    <3> HIDE DEF A
    <3>1. << >> \in Seq(A)
      OBVIOUS
    <3> QED BY <2>1, <3>1 DEF A
  <2>3. Len(selected') = 0
    BY <2>1
  <2> QED BY <1>7, <2>1, <2>2, <2>3 DEF Walked
<1> QED BY <1>1, <1>2, <1>5, <1>6, <1>8 DEF QueryInv, EachPackHeard

LEMMA SelectKeeps == ASSUME QueryInv, Select PROVE QueryInv'
<1> DEFINE x == unified[at]
<1> DEFINE e == Entry(x)
<1>1. /\ phase = "select" /\ phase' = "select" /\ ~Full /\ at' = at + 1
      /\ selected' = IF ~HasRow(e) \/ Chosen(e) THEN selected ELSE Append(selected, e)
      /\ UNCHANGED <<packs, hits, passing, unified>>
  BY DEF Select, Entry
<1>2. /\ packs \in Queries /\ hits \in Seq(Fuses) /\ Judged /\ Walked /\ Len(hits) <= Len(packs)
  BY <1>1 DEF QueryInv
<1>3. /\ DOMAIN unified = 1..Len(unified) /\ Len(unified) \in Nat
      /\ \A p \in 1..Len(unified) : unified[p] \in Candidates(passing)
  BY <1>2, JudgedFacts DEF Ranked
<1>4. at \in 1..Len(unified) /\ x \in Candidates(passing) /\ at \in Nat
  <2>1. at \in Nat \ {0} /\ ~(at > Len(unified))
    BY <1>1, <1>2 DEF Walked, Full
  <2> QED BY <1>3, <2>1
<1> DEFINE A == {Entry(z) : z \in Candidates(passing)}
<1>5. e \in A /\ selected \in Seq(A) /\ Len(selected) < at
  BY <1>2, <1>4 DEF Walked
<1>6. /\ Entry(unified[at]) = e
      /\ \A p \in 1..Len(unified) : Entry(unified[p])' = Entry(unified[p])
      /\ A' = A /\ Fuses' = Fuses
  <2>1. A' = A
    BY <1>1 DEF Entry, Candidates
  <2>2. Fuses' = Fuses
    BY <1>1 DEF Fuses, Fused, Ordered, Found, Before, Num, Den
  <2> QED BY <1>1, <2>1, <2>2 DEF Entry
<1>7. \A z : Key(z)' = Key(z) /\ (HasRow(z)' <=> HasRow(z))
  BY <1>1 DEF Key, HasRow
<1>8. Judged'
  BY <1>1, <1>2, JudgedRests
<1>9. \A p \in 1..(at - 1) : HasRow(Entry(unified[p])) =>
       \E r \in DOMAIN selected : \E b \in 1..p :
         Key(selected[r]) = Key(Entry(unified[p])) /\ selected[r] = Entry(unified[b])
  BY <1>2 DEF Walked
<1>10. /\ selected \in Seq(A)
       /\ \A r \in DOMAIN selected : \E b \in 1..(at - 1) : selected[r] = Entry(unified[b])
  BY <1>2, <1>5 DEF Walked
<1>11. PICK t : t = selected'
  OBVIOUS
<1>12. /\ t \in Seq(A) /\ Len(t) <= Len(selected) + 1
       /\ \A r \in DOMAIN selected : r \in DOMAIN t /\ t[r] = selected[r]
       /\ \A r \in DOMAIN t : r \in DOMAIN selected \/ t[r] = e
       /\ HasRow(e) => \E r \in DOMAIN t : \E b \in 1..at :
            Key(t[r]) = Key(e) /\ t[r] = Entry(unified[b])
  <2>1. CASE ~HasRow(e) \/ Chosen(e)
    <3>1. t = selected
      BY <1>1, <1>11, <2>1
    <3>2. Len(t) <= Len(selected) + 1
      <4>1. Len(selected) \in Nat
        BY <1>5
      <4> QED BY <3>1, <4>1
    <3>3. Chosen(e) => \E r \in DOMAIN t : \E b \in 1..at :
            Key(t[r]) = Key(e) /\ t[r] = Entry(unified[b])
      <4>1. \A b \in 1..(at - 1) : b \in 1..at
        BY <1>4
      <4> HIDE DEF e
      <4> QED BY <1>10, <3>1, <4>1 DEF Chosen
    <3> HIDE DEF e, A
    <3> QED BY <1>5, <2>1, <3>1, <3>2, <3>3
  <2>2. CASE ~(~HasRow(e) \/ Chosen(e))
    <3>1. t = Append(selected, e)
      BY <1>1, <1>11, <2>2
    <3>2. e = Entry(unified[at]) /\ at \in 1..at
      BY <1>4
    <3> HIDE DEF e, A
    <3>3. /\ t \in Seq(A) /\ Len(t) = Len(selected) + 1 /\ Len(selected) \in Nat
          /\ t[Len(selected) + 1] = e /\ Len(selected) + 1 \in DOMAIN t
          /\ DOMAIN selected = 1..Len(selected) /\ DOMAIN t = 1..(Len(selected) + 1)
          /\ \A r \in 1..Len(selected) : t[r] = selected[r]
      BY <1>5, <3>1
    <3>4. \A r \in 1..(Len(selected) + 1) : r \in 1..Len(selected) \/ r = Len(selected) + 1
      BY <3>3
    <3>5. \A r \in DOMAIN t : r \in DOMAIN selected \/ t[r] = e
      BY <3>3, <3>4
    <3>6. \E r \in DOMAIN t : \E b \in 1..at : Key(t[r]) = Key(e) /\ t[r] = Entry(unified[b])
      BY <3>2, <3>3
    <3>7. \A r \in DOMAIN selected : r \in DOMAIN t /\ t[r] = selected[r]
      BY <3>3
    <3>8. Len(t) <= Len(selected) + 1
      BY <3>3
    <3> QED BY <3>3, <3>5, <3>6, <3>7, <3>8
  <2> QED BY <2>1, <2>2
<1>13. (\A r \in DOMAIN selected : \E b \in 1..(at - 1) : selected[r] = Entry(unified[b]))'
  <2>1. at' - 1 = at
    BY <1>1, <1>4
  <2>2. \A b \in 1..at : Entry(unified[b])' = Entry(unified[b])
    BY <1>3, <1>4, <1>6
  <2>3. \A b \in 1..(at - 1) : b \in 1..at
    BY <1>4
  <2>4. \A r \in DOMAIN t : \E b \in 1..at : t[r] = Entry(unified[b])
    <3>1. e = Entry(unified[at]) /\ at \in 1..at
      BY <1>4
    <3> HIDE DEF e
    <3> QED BY <1>10, <1>12, <2>3, <3>1
  <2> QED BY <1>11, <2>1, <2>2, <2>4
<1>14. \A p \in 1..at : HasRow(Entry(unified[p])) =>
         \E r \in DOMAIN t : \E b \in 1..p :
           Key(t[r]) = Key(Entry(unified[p])) /\ t[r] = Entry(unified[b])
  <2> SUFFICES ASSUME NEW p \in 1..at, HasRow(Entry(unified[p]))
               PROVE \E r \in DOMAIN t : \E b \in 1..p :
                       Key(t[r]) = Key(Entry(unified[p])) /\ t[r] = Entry(unified[b])
    OBVIOUS
  <2>1. CASE p = at
    BY <1>6, <1>12, <2>1
  <2>2. CASE p \in 1..(at - 1)
    BY <1>9, <1>12, <2>2
  <2> QED BY <1>4, <2>1, <2>2
<1>15. (\A p \in 1..(at - 1) : HasRow(Entry(unified[p])) =>
         \E r \in DOMAIN selected : \E b \in 1..p :
           Key(selected[r]) = Key(Entry(unified[p])) /\ selected[r] = Entry(unified[b]))'
  <2>1. at' - 1 = at
    BY <1>1, <1>4
  <2>2. \A b \in 1..at : Entry(unified[b])' = Entry(unified[b])
    BY <1>3, <1>4, <1>6
  <2>3. \A p \in 1..at : \A b \in 1..p : b \in 1..at
    BY <1>4
  <2>4. \A p \in 1..at : /\ HasRow(Entry(unified[p]))' <=> HasRow(Entry(unified[p]))
                         /\ Key(Entry(unified[p]))' = Key(Entry(unified[p]))
    BY <1>1 DEF Key, HasRow, Entry
  <2>5. \A r \in DOMAIN selected' : Key(selected[r])' = Key(t[r])
    BY <1>1, <1>11 DEF Key
  <2> QED BY <1>11, <1>14, <2>1, <2>2, <2>3, <2>4, <2>5
<1>16. Walked'
  <2>1. selected' \in Seq(A)' /\ Len(selected') < at'
    <3>1. Len(t) < at + 1
      <4>1. Len(t) \in Nat /\ Len(selected) \in Nat
        BY <1>5, <1>12
      <4> QED BY <1>4, <1>5, <1>12, <4>1
    <3> QED BY <1>1, <1>6, <1>11, <1>12, <3>1
  <2>2. at' \in Nat \ {0} /\ at' <= Len(unified') + 1
    BY <1>1, <1>3, <1>4
  <2> QED BY <1>13, <1>15, <2>1, <2>2 DEF Walked
<1>17. hits' \in Seq(Fuses)' /\ packs' \in Queries /\ Len(hits') <= Len(packs')
  BY <1>1, <1>2, <1>6
<1> QED BY <1>1, <1>8, <1>16, <1>17 DEF QueryInv, EachPackHeard

\* A walk that ends has heard the best chunk of every pack that passed.
LEMMA BestIsSelected ==
  ASSUME packs \in Queries, hits \in Seq(Fuses), Judged, Walked, Full, Len(packs) <= TierN,
         NEW k \in passing, HasRow(<<k, hits[k][1]>>)
  PROVE  \E r \in DOMAIN selected : selected[r] = <<k, hits[k][1]>>
<1>1. PICK r \in 1..Len(packs) :
           /\ r <= Len(unified) /\ unified[r] = <<k, 1>>
           /\ \A b \in 1..r : unified[b] \in Candidates(passing)
                /\ (unified[b][1] = k => unified[b] = <<k, 1>>)
  BY BestIsEarly
<1>2. /\ at \in Nat /\ Len(selected) < at /\ Len(packs) \in Nat
      /\ Len(unified) \in Nat /\ TierN \in Nat
  BY JudgedFacts, RetrievalAssumption DEF Walked, Ranked
<1>3. r \in 1..(at - 1)
  <2>1. Len(selected) \in Nat
    BY LenProperties DEF Walked
  <2>2. at > r
    BY <1>1, <1>2, <2>1 DEF Full
  <2> QED BY <1>2, <2>2
<1>4. Entry(unified[r]) = <<k, hits[k][1]>>
  BY <1>1 DEF Entry
<1>5. PICK j \in DOMAIN selected : \E b \in 1..r :
         Key(selected[j]) = Key(Entry(unified[r])) /\ selected[j] = Entry(unified[b])
  BY <1>3, <1>4 DEF Walked
<1>6. PICK b \in 1..r :
         Key(selected[j]) = Key(Entry(unified[r])) /\ selected[j] = Entry(unified[b])
  BY <1>5
<1>7. Key(Entry(unified[b]))[1] = unified[b][1] /\ Key(Entry(unified[r]))[1] = k
  BY <1>1 DEF Key, Entry
<1>8. unified[b] = <<k, 1>>
  BY <1>1, <1>6, <1>7
<1> QED BY <1>4, <1>1, <1>6, <1>8

LEMMA ResolveKeeps == ASSUME QueryInv, Resolve PROVE QueryInv'
<1> DEFINE S == {r \in DOMAIN selected : HasDoc(selected[r])}
<1> DEFINE kept == Ordered(S, <)
<1>1. /\ phase = "select" /\ phase' \in {"noEvidence", "grounded"} /\ Full
      /\ cited' = [r \in DOMAIN kept |-> selected[kept[r]]]
      /\ UNCHANGED <<packs, hits, passing, unified, at, selected>>
  BY DEF Resolve
<1>2. /\ packs \in Queries /\ hits \in Seq(Fuses) /\ Judged /\ Walked /\ Len(hits) <= Len(packs)
  BY <1>1 DEF QueryInv
<1>3. Ranked(kept, S, Less(S))
  <2>1. DOMAIN selected = 1..Len(selected) /\ Len(selected) \in Nat
    BY <1>2, LenProperties DEF Walked
  <2>2. S \in SUBSET Nat /\ S \in SUBSET (1..Len(selected))
    BY <2>1
  <2>3. IsFiniteSet(S)
    <3>1. 1 \in Int /\ Len(selected) \in Int
      BY <2>1
    <3>2. IsFiniteSet(1..Len(selected))
      BY ONLY <3>1, FS_Interval
    <3> HIDE DEF S
    <3> QED BY <2>2, <3>2, FS_Subset
  <2>4. kept = [m \in 1..Cardinality(S) |->
                  CHOOSE x \in S : Cardinality({y \in S : y < x}) = m - 1]
    BY DEF Ordered
  <2> HIDE DEF S, kept
  <2> QED BY <2>2, <2>3, <2>4, NumbersRanked
<1>4. \A s \in S : \E r \in DOMAIN kept : kept[r] = s
  <2> HIDE DEF S, kept
  <2> QED BY <1>3 DEF Ranked
<1>5. Judged'
  BY <1>1, <1>2, JudgedRests
<1>6. EachPackHeard'
  <2> SUFFICES ASSUME Len(packs) <= TierN, NEW k \in passing,
                      HasRow(<<k, hits[k][1]>>), HasDoc(<<k, hits[k][1]>>)
               PROVE  \E r \in DOMAIN cited' : cited'[r] = <<k, hits[k][1]>>
    BY <1>1 DEF EachPackHeard, HasRow, HasDoc
  <2>1. PICK s \in DOMAIN selected : selected[s] = <<k, hits[k][1]>>
    BY <1>1, <1>2, BestIsSelected
  <2>2. s \in S
    BY <2>1
  <2> HIDE DEF S, kept
  <2>3. PICK r \in DOMAIN kept : kept[r] = s
    BY ONLY <1>4, <2>2
  <2>4. r \in DOMAIN cited' /\ cited'[r] = selected[s]
    <3>1. cited' = [x \in DOMAIN kept |-> selected[kept[x]]]
      BY ONLY <1>1
    <3> QED BY ONLY <2>3, <3>1
  <2> QED BY ONLY <2>1, <2>4
<1>7. Fuses' = Fuses
  BY <1>1 DEF Fuses, Fused, Ordered, Found, Before, Num, Den
<1>8. hits' \in Seq(Fuses)' /\ packs' \in Queries /\ Len(hits') <= Len(packs')
  BY <1>1, <1>2, <1>7
<1> QED BY <1>1, <1>5, <1>6, <1>8 DEF QueryInv

LEMMA QueryRests == ASSUME QueryInv, UNCHANGED qvars PROVE QueryInv'
<1>1. UNCHANGED <<packs, phase, hits, passing, unified, at, selected, cited>>
  BY DEF qvars
<1>2. Fuses' = Fuses
  BY <1>1 DEF Fuses, Fused, Ordered, Found, Before, Num, Den
<1>3. EachPackHeard' <=> EachPackHeard
  BY <1>1 DEF EachPackHeard, HasRow, HasDoc
<1>4. Walked' <=> Walked
  BY <1>1 DEF Walked, Key, HasRow, Entry, Candidates
<1>5. Judged => Judged'
  BY <1>1, JudgedRests
<1> QED BY <1>1, <1>2, <1>3, <1>4, <1>5 DEF QueryInv

LEMMA QueryStep == QueryInv /\ [QNext]_qvars => QueryInv'
BY SearchKeeps, GateKeeps, SelectKeeps, ResolveKeeps, QueryRests DEF QNext

\* However many packs are mounted, whatever their lanes return: while the tier
\* has room for one chunk of each pack, the best chunk of every pack that passes
\* its own gate is cited if its document is there.
THEOREM PacksAreHeard == QSpec => []EachPackHeard
<1>1. QueryInv => EachPackHeard
  BY DEF QueryInv
<1> QED BY <1>1, QueryInit, QueryStep, PTL DEF QSpec

-----------------------------------------------------------------------------
(* The signed catalog *)

Fetch == [pc : {"idle", "sig", "verify", "lock", "read", "check", "answer"},
          catalog : Nat, sig : Nat, seen : Nat]
\* The critical section has one fetch in it, and what it has read there holds.
Exclusive ==
  /\ published \in Nat /\ highest \in Nat /\ answered \in Nat
  /\ fetches \in [Fetches -> Fetch] /\ answered <= highest
  /\ \A f \in Fetches :
       /\ fetches[f].pc \in {"read", "check", "answer"} => fetch_lock = f
       /\ fetches[f].pc = "check" => fetches[f].seen = highest
       /\ fetches[f].pc = "answer" => fetches[f].catalog = highest

LEMMA ExclusiveInit == DistInit => Exclusive
  BY CatalogDistAssumption DEF DistInit, Exclusive, Fetch, Idle

\* A fetch that goes on outside of the section.
LEMMA OutsideStep ==
  ASSUME Exclusive, NEW f \in Fetches, NEW e \in Fetch,
         fetches' = [fetches EXCEPT ![f] = e], e.pc \in {"idle", "sig", "verify", "lock"},
         UNCHANGED <<published, fetch_lock, highest, answered>>
  PROVE  Exclusive'
  BY DEF Exclusive, Fetch

LEMMA ExclusiveStep == ASSUME Exclusive, [DistNext]_distvars PROVE Exclusive'
<1>1. CASE Publish
  BY <1>1 DEF Publish, Exclusive
<1>2. CASE Restarted
  BY <1>2 DEF Restarted, Exclusive, Fetch, Idle
<1>3. ASSUME NEW f \in Fetches,
             GetCatalog(f) \/ GetSig(f) \/ FetchFails(f) \/ ParseAndVerify(f)
      PROVE  Exclusive'
  <2>1. PICK e \in Fetch :
          /\ fetches' = [fetches EXCEPT ![f] = e]
          /\ e.pc \in {"idle", "sig", "verify", "lock"}
          /\ UNCHANGED <<published, fetch_lock, highest, answered>>
    <3>1. published \in Nat /\ 1..published \subseteq Nat /\ fetches[f] \in Fetch
      BY DEF Exclusive
    <3>2. CASE GetCatalog(f)
      <4>1. PICK v \in 1..published :
              fetches' = [fetches EXCEPT ![f] = [fetches[f] EXCEPT !.catalog = v, !.pc = "sig"]]
        BY <3>2 DEF GetCatalog
      <4> QED BY <3>1, <3>2, <4>1 DEF GetCatalog, Fetch
    <3>3. CASE GetSig(f)
      <4>1. PICK s \in 1..published :
              fetches' = [fetches EXCEPT ![f] = [fetches[f] EXCEPT !.sig = s, !.pc = "verify"]]
        BY <3>3 DEF GetSig
      <4> QED BY <3>1, <3>3, <4>1 DEF GetSig, Fetch
    <3>4. CASE FetchFails(f)
      BY <3>4 DEF FetchFails, Fetch, Idle
    <3>5. CASE ParseAndVerify(f)
      <4>1. \/ fetches' = [fetches EXCEPT ![f] = [fetches[f] EXCEPT !.pc = "lock"]]
            \/ fetches' = [fetches EXCEPT ![f] = Idle]
        BY <3>5 DEF ParseAndVerify, Goes
      <4> QED BY <3>1, <3>5, <4>1 DEF ParseAndVerify, Fetch, Idle
    <3> QED BY <1>3, <3>2, <3>3, <3>4, <3>5
  <2> QED BY <2>1, OutsideStep
<1>4. ASSUME NEW f \in Fetches, Lock(f) PROVE Exclusive'
  BY <1>4, CatalogDistAssumption DEF Lock, Goes, Exclusive, Fetch
<1>5. ASSUME NEW f \in Fetches, ReadHighest(f) PROVE Exclusive'
  BY <1>5 DEF ReadHighest, Exclusive, Fetch
<1>6. ASSUME NEW f \in Fetches, RefuseOlder(f) \/ WriteHighest(f) \/ Answer(f)
      PROVE  Exclusive'
  <2>1. \A g \in Fetches :
          g # f => fetches[g].pc \notin {"read", "check", "answer"} /\ fetches'[g] = fetches[g]
    BY <1>6 DEF Exclusive, RefuseOlder, WriteHighest, Answer, Unlocks, Goes
  <2>2. fetches' \in [Fetches -> Fetch] /\ published' = published
    BY <1>6 DEF Exclusive, RefuseOlder, WriteHighest, Answer, Unlocks, Goes, Fetch, Idle
  <2>3. CASE RefuseOlder(f)
    BY <2>1, <2>2, <2>3 DEF Exclusive, RefuseOlder, Unlocks, Idle, Fetch
  <2>4. CASE WriteHighest(f)
    BY <2>1, <2>2, <2>4 DEF Exclusive, WriteHighest, Unlocks, Goes, Idle, Fetch
  <2>5. CASE Answer(f)
    BY <2>1, <2>2, <2>5 DEF Exclusive, Answer, Unlocks, Idle, Fetch
  <2> QED BY <1>6, <2>3, <2>4, <2>5
<1>7. CASE UNCHANGED distvars
  BY <1>7 DEF distvars, Exclusive
<1> QED BY <1>1, <1>2, <1>3, <1>4, <1>5, <1>6, <1>7 DEF DistNext

\* NeverOlder: for any number of fetches and of restarts, no fetch is answered
\* with an older catalog than one answered before, and the file is never behind.
THEOREM CatalogsRise == DistSpec => NeverOlder
<1>1. Exclusive /\ [DistNext]_distvars =>
        [answered' >= answered /\ highest' >= answered']_distvars
  <2> SUFFICES ASSUME Exclusive, DistNext
               PROVE  answered' >= answered /\ highest' >= answered'
    BY DEF distvars, Exclusive
  <2>1. highest \in Nat /\ answered \in Nat /\ answered <= highest
    BY DEF Exclusive
  <2>2. CASE \E f \in Fetches : Answer(f)
    BY <2>1, <2>2 DEF Answer, Exclusive
  <2>3. CASE \E f \in Fetches : WriteHighest(f)
    BY <2>1, <2>3 DEF WriteHighest, Exclusive, Fetch
  <2>4. CASE UNCHANGED <<highest, answered>>
    BY <2>1, <2>4
  <2> QED
    BY <2>2, <2>3, <2>4 DEF DistNext, Publish, Restarted, GetCatalog, GetSig, FetchFails,
       ParseAndVerify, Lock, ReadHighest, RefuseOlder
<1> QED BY ExclusiveInit, ExclusiveStep, <1>1, PTL DEF DistSpec, NeverOlder


-----------------------------------------------------------------------------
(* Adapter stacks *)

Role == {"behavioral", "contract", "voice"}
LEMMA RolesAre == Range(Roles) = Role /\ Artifact = {"base"} \cup Role
<1>1. DOMAIN Roles = 1..3 /\ 1..3 = {1, 2, 3}
  BY DEF Roles
<1>2. Roles[1] = "behavioral" /\ Roles[2] = "contract" /\ Roles[3] = "voice"
  BY DEF Roles
<1> QED BY <1>1, <1>2 DEF Range, Artifact, Role

LEMMA DisjointUnion ==
  ASSUME NEW S, NEW T, IsFiniteSet(S), IsFiniteSet(T), S \cap T = {}
  PROVE  IsFiniteSet(S \cup T) /\ Cardinality(S \cup T) = Cardinality(S) + Cardinality(T)
<1>1. /\ IsFiniteSet(S \cup T)
      /\ Cardinality(S \cup T) = Cardinality(S) + Cardinality(T) - Cardinality(S \cap T)
  BY FS_Union
<1>2. Cardinality(S \cap T) = 0 /\ Cardinality(S) \in Nat /\ Cardinality(T) \in Nat
  BY FS_EmptySet, FS_CardinalityType
<1> QED BY <1>1, <1>2

LEMMA OnlyLength ==
  ASSUME NEW want, NEW role \in Role
  PROVE  /\ Only(role, want) \in Seq(Role)
         /\ Len(Only(role, want)) = (IF role \in Range(want) THEN 1 ELSE 0)
         /\ Cardinality(Range(want) \cap {role}) = Len(Only(role, want))
         /\ IsFiniteSet(Range(want) \cap {role})
<1>1. CASE role \in Range(want)
  <2>1. Range(want) \cap {role} = {role} /\ Only(role, want) = <<role>>
    BY <1>1 DEF Only
  <2>2. IsFiniteSet({role}) /\ Cardinality({role}) = 1
    BY FS_Singleton
  <2>3. <<role>> \in Seq(Role) /\ Len(<<role>>) = 1
    OBVIOUS
  <2> QED BY <1>1, <2>1, <2>2, <2>3
<1>2. CASE role \notin Range(want)
  <2>1. Range(want) \cap {role} = {} /\ Only(role, want) = << >>
    BY <1>2 DEF Only
  <2> QED BY <1>2, <2>1, FS_EmptySet
<1> QED BY <1>1, <1>2

\* A stack without a second adapter of one role is put in order, whole.
LEMMA OrderWhole ==
  ASSUME NEW want \in Seq(Role)
  PROVE  /\ Order(want) \in Seq(Artifact)
         /\ Len(Order(want)) \in Nat \ {0}
         /\ IsInjective(want) => Len(Order(want)) = Len(want) + 1
<1> DEFINE b == Only("behavioral", want)
           m == Only("contract", want)
           v == Only("voice", want)
           R == Range(want)
<1>1. b \in Seq(Artifact) /\ m \in Seq(Artifact) /\ v \in Seq(Artifact)
      /\ Len(b) \in Nat /\ Len(m) \in Nat /\ Len(v) \in Nat
  <2>1. "behavioral" \in Role /\ "contract" \in Role /\ "voice" \in Role
    BY DEF Role
  <2>2. b \in Seq(Role) /\ m \in Seq(Role) /\ v \in Seq(Role)
    BY <2>1, OnlyLength
  <2> QED BY <2>2, RolesAre
<1>2. <<"base">> \in Seq(Artifact) /\ Len(<<"base">>) = 1
  BY RolesAre
<1>3. /\ Order(want) = ((<<"base">> \o b) \o m) \o v
      /\ Order(want) \in Seq(Artifact)
      /\ Len(Order(want)) = ((1 + Len(b)) + Len(m)) + Len(v)
  <2> HIDE DEF b, m, v
  <2>1. (<<"base">> \o b) \in Seq(Artifact) /\ Len(<<"base">> \o b) = 1 + Len(b)
    BY <1>1, <1>2
  <2>2. /\ ((<<"base">> \o b) \o m) \in Seq(Artifact)
        /\ Len((<<"base">> \o b) \o m) = (1 + Len(b)) + Len(m)
    BY <1>1, <2>1
  <2>3. Order(want) = ((<<"base">> \o b) \o m) \o v
    BY DEF Order, b, m, v
  <2> QED BY <1>1, <2>2, <2>3
<1>4. ASSUME IsInjective(want) PROVE Len(b) + Len(m) + Len(v) = Len(want)
  <2>1. IsFiniteSet(R) /\ Cardinality(R) = Len(want)
    <3>1. want \in [1..Len(want) -> R] /\ Len(want) \in Nat
      BY DEF Range
    <3>2. want \in Bijection(1..Len(want), R)
      BY <1>4, <3>1 DEF Bijection, Injection, Surjection, IsInjective, Range
    <3>3. ExistsBijection(1..Len(want), R)
      BY <3>2 DEF ExistsBijection
    <3> QED BY <3>1, <3>3, FS_CountingElements, FS_NatBijection
  <2>2. R \subseteq Role
    BY DEF Range
  <2> DEFINE B == R \cap {"behavioral"}
             M == R \cap {"contract"}
             V == R \cap {"voice"}
  <2>3. R = (B \cup M) \cup V /\ B \cap M = {} /\ (B \cup M) \cap V = {}
    BY <2>2 DEF Role
  <2>4. /\ IsFiniteSet(B) /\ IsFiniteSet(M) /\ IsFiniteSet(V)
        /\ Cardinality(B) = Len(b) /\ Cardinality(M) = Len(m) /\ Cardinality(V) = Len(v)
    <3>1. "behavioral" \in Role /\ "contract" \in Role /\ "voice" \in Role
      BY DEF Role
    <3> QED BY <3>1, OnlyLength
  <2> HIDE DEF R, b, m, v, B, M, V
  <2>5. /\ IsFiniteSet(B \cup M)
        /\ Cardinality(B \cup M) = Cardinality(B) + Cardinality(M)
    BY ONLY <2>3, <2>4, DisjointUnion
  <2>6. Cardinality((B \cup M) \cup V) = Cardinality(B \cup M) + Cardinality(V)
    BY ONLY <2>3, <2>4, <2>5, DisjointUnion
  <2>7. Cardinality(R) = (Len(b) + Len(m)) + Len(v)
    BY <1>1, <2>3, <2>4, <2>5, <2>6
  <2> QED BY <2>1, <2>7, <1>1
<1> HIDE DEF b, m, v
<1>5. Len(want) \in Nat
  OBVIOUS
<1> QED BY <1>1, <1>3, <1>4, <1>5

Threads == Loader \cup Embedding
Pcs == {"idle", "gate", "backend", "init_lock", "init", "read", "loaded", "missing",
        "integrity", "composition", "native_failed"}
State == {"none", "genuine", "other"}
Layer == [art : Artifact, file : State]
StackTypes ==
  /\ disk \in [Artifact -> State] /\ verified \subseteq Artifact
  /\ native \in BOOLEAN /\ changes \in Nat
  /\ load \in [Threads -> [pc : Pcs, want : Seq(Role), k : Nat, mounted : Seq(Layer)]]
\* What is verified is not replaced by another file, but it may be gone.
VerifiedKept == \A a \in verified : disk[a] # "other"
\* Each artifact that has passed the gate is one that is noted, or that no digest pins.
Gated(l) ==
  /\ load[l].pc = "gate" =>
       /\ IsInjective(load[l].want) /\ load[l].k \in 1..Len(Order(load[l].want))
       /\ \A j \in 1..(load[l].k - 1) : Order(load[l].want)[j] \in Pinned
                                          => Order(load[l].want)[j] \in verified
  /\ load[l].pc \in {"backend", "init_lock", "init", "read"} =>
       /\ IsInjective(load[l].want)
       /\ \A j \in DOMAIN Order(load[l].want) : Order(load[l].want)[j] \in Pinned
                                          => Order(load[l].want)[j] \in verified
  /\ load[l].pc = "loaded" =>
       /\ Len(load[l].mounted) = Len(load[l].want) + 1
       /\ \A j \in DOMAIN load[l].mounted :
            /\ load[l].mounted[j].art = Order(load[l].want)[j]
            /\ load[l].mounted[j].art \in Pinned => load[l].mounted[j].file = "genuine"
\* One crate alone is at work in the process, and the backend is its own.
OneCrate ==
  /\ backend \subseteq {"engine", "embed"} /\ (native => backend # {})
  /\ \A l, m \in Threads :
       load[l].pc # "idle" /\ Crate(m) # Crate(l)
         => load[m].pc = "idle" /\ Crate(m) \notin backend
  /\ \A e \in backend : \E m \in Threads : Crate(m) = e
  /\ \A l \in Threads : load[l].pc # "init"
StackInv == StackTypes /\ VerifiedKept /\ (\A l \in Loader : Gated(l)) /\ OneCrate

LEMMA StackInitial == StackInit => StackInv
<1> SUFFICES ASSUME StackInit PROVE StackInv
  OBVIOUS
<1>1. Resting \in [pc : Pcs, want : Seq(Role), k : Nat, mounted : Seq(Layer)]
      /\ Resting.pc = "idle"
  BY DEF Resting, Pcs
<1>2. StackTypes
  BY <1>1, StackAssumption DEF StackInit, StackTypes, Threads, State
<1>3. VerifiedKept /\ OneCrate /\ \A l \in Loader : Gated(l)
  BY <1>1 DEF StackInit, VerifiedKept, OneCrate, Gated, Threads
<1> QED BY <1>2, <1>3 DEF StackInv

\* A step of one thread; the disk stays, and what is verified may become more.
LEMMA ThreadStep ==
  ASSUME StackInv, NEW l \in Threads,
         NEW e \in [pc : Pcs, want : Seq(Role), k : Nat, mounted : Seq(Layer)],
         load' = [load EXCEPT ![l] = e], UNCHANGED <<disk, changes>>,
         native' \in BOOLEAN, verified \subseteq verified', verified' \subseteq Artifact
  PROVE  /\ StackTypes' /\ load'[l] = e
         /\ \A m \in Threads : m # l => load'[m] = load[m]
         /\ \A m \in Loader : m # l => Gated(m)'
<1>1. StackTypes' /\ load'[l] = e /\ \A m \in Threads : m # l => load'[m] = load[m]
  BY DEF StackInv, StackTypes
<1>2. ASSUME NEW m \in Loader, m # l PROVE Gated(m)'
  <2>1. load'[m] = load[m] /\ Gated(m)
    BY <1>1, <1>2 DEF StackInv, Threads
  <2> QED BY <2>1 DEF Gated
<1> QED BY <1>1, <1>2

\* A thread's step that takes it up, on or down, without a file of the stack.
LEMMA CrateStep ==
  ASSUME StackInv, NEW l \in Threads, load[l].pc # "idle",
         load' \in [Threads -> [pc : Pcs, want : Seq(Role), k : Nat, mounted : Seq(Layer)]],
         load'[l].pc # "init", \A m \in Threads : m # l => load'[m] = load[m],
         UNCHANGED <<native, backend>>
  PROVE  OneCrate'
  BY DEF StackInv, OneCrate

LEMMA CrateStart ==
  ASSUME StackInv, "both" \notin LoadBeyond, NEW l \in Threads, LoadsAlone(l),
         load' \in [Threads -> [pc : Pcs, want : Seq(Role), k : Nat, mounted : Seq(Layer)]],
         load'[l].pc # "init", \A m \in Threads : m # l => load'[m] = load[m],
         UNCHANGED <<native, backend>>
  PROVE  OneCrate'
<1>1. \A m \in Threads :
        Crate(m) = Crate(l) \/ (load[m].pc = "idle" /\ Crate(m) \notin backend)
  BY DEF LoadsAlone, Threads
<1> QED BY <1>1 DEF StackInv, OneCrate

LEMMA StackAsk ==
  ASSUME StackInv, "both" \notin LoadBeyond, NEW l \in Loader, NEW want \in Requests,
         Ask(l, want)
  PROVE  StackInv'
<1>1. want \in Seq(Role) /\ l \in Threads
  BY StackAssumption, RolesAre DEF Threads
<1> DEFINE p == IF IsInjective(want) THEN "gate" ELSE "composition"
           e == [pc |-> p, want |-> want, k |-> 1, mounted |-> << >>]
<1>0. p \in {"gate", "composition"} /\ (p = "gate" => IsInjective(want))
  OBVIOUS
<1>2. load' = [load EXCEPT ![l] = e]
  <2>1. load' = [load EXCEPT ![l] = [Resting EXCEPT !.want = want, !.pc = p]]
    BY Zenon DEF Ask
  <2> HIDE DEF p
  <2> DEFINE r == [Resting EXCEPT !.want = want]
  <2>2. [Resting EXCEPT !.want = want, !.pc = p] = [r EXCEPT !.pc = p]
    OBVIOUS
  <2>3. r = [pc |-> "idle", want |-> want, k |-> 1, mounted |-> << >>]
    BY DEF Resting
  <2> HIDE DEF r
  <2>4. [r EXCEPT !.pc = p] = e
    BY <2>3
  <2> QED BY <2>1, <2>2, <2>4
<1> HIDE DEF p
<1>3. e \in [pc : Pcs, want : Seq(Role), k : Nat, mounted : Seq(Layer)]
  BY <1>0, <1>1 DEF Pcs
<1>4. /\ StackTypes' /\ load'[l] = e
      /\ \A m \in Threads : m # l => load'[m] = load[m]
      /\ \A m \in Loader : m # l => Gated(m)'
  <2> HIDE DEF e
  <2>1. /\ UNCHANGED <<disk, changes>> /\ native' \in BOOLEAN /\ verified' = verified
        /\ verified' \subseteq Artifact
    BY DEF Ask, StackInv, StackTypes
  <2> QED BY <1>1, <1>2, <1>3, <2>1, ThreadStep
<1>5. Gated(l)'
  <2>2. Len(Order(want)) \in Nat \ {0}
    BY <1>1, OrderWhole
  <2>3. load'[l].pc = p /\ load'[l].k = 1 /\ load'[l].want = want
    BY <1>4
  <2> HIDE DEF e
  <2> QED BY <1>0, <2>2, <2>3 DEF Gated
<1>6. OneCrate'
  <2>1. load'[l].pc # "init" /\ UNCHANGED <<native, backend>> /\ LoadsAlone(l)
    BY <1>0, <1>4 DEF Ask
  <2>2. load' \in [Threads -> [pc : Pcs, want : Seq(Role), k : Nat, mounted : Seq(Layer)]]
    BY <1>4 DEF StackTypes
  <2> HIDE DEF e
  <2> QED BY <1>1, <1>4, <2>1, <2>2, CrateStart
<1>7. VerifiedKept'
  BY DEF Ask, StackInv, VerifiedKept
<1> QED BY <1>4, <1>5, <1>6, <1>7 DEF StackInv

LEMMA StackGate ==
  ASSUME StackInv, NEW l \in Threads, l \in Loader, GateArtifact(l)
  PROVE  StackInv'
<1> DEFINE want == load[l].want
           order == Order(want)
           k == load[l].k
           a == order[k]
<1>1. /\ load[l] \in [pc : Pcs, want : Seq(Role), k : Nat, mounted : Seq(Layer)]
      /\ load[l].pc = "gate" /\ IsInjective(want) /\ k \in 1..Len(order)
      /\ \A j \in 1..(k - 1) : order[j] \in Pinned => order[j] \in verified
  BY DEF StackInv, StackTypes, Gated, GateArtifact
<1>2. order \in Seq(Artifact) /\ Len(order) \in Nat \ {0}
  BY <1>1, OrderWhole
<1>3. a \in Artifact /\ disk[a] \in State
  BY <1>1, <1>2 DEF StackInv, StackTypes
<1>4. UNCHANGED <<disk, native, backend, changes>>
  BY DEF GateArtifact
<1>5. ASSUME NEW p \in {"missing", "integrity"}, LoadGoes(l, p), UNCHANGED verified
      PROVE  StackInv'
  <2> DEFINE e == [load[l] EXCEPT !.pc = p]
  <2>1. load' = [load EXCEPT ![l] = e] /\ e.pc = p
        /\ e \in [pc : Pcs, want : Seq(Role), k : Nat, mounted : Seq(Layer)]
    BY <1>1, <1>5 DEF LoadGoes, Pcs, StackInv, StackTypes
  <2> HIDE DEF e
  <2>2. verified' \subseteq Artifact /\ native' \in BOOLEAN
    BY <1>4, <1>5 DEF StackInv, StackTypes
  <2>3. /\ StackTypes' /\ load'[l] = e
        /\ \A m \in Threads : m # l => load'[m] = load[m]
        /\ \A m \in Loader : m # l => Gated(m)'
    BY <1>4, <1>5, <2>1, <2>2, ThreadStep
  <2>4. Gated(l)'
    BY <2>1, <2>3 DEF Gated
  <2>5. OneCrate'
    BY <1>1, <1>4, <2>1, <2>3, CrateStep DEF StackTypes
  <2>6. VerifiedKept'
    BY <1>4, <1>5 DEF StackInv, VerifiedKept
  <2> QED BY <2>3, <2>4, <2>5, <2>6 DEF StackInv
<1>6. ASSUME Genuine(a), disk[a] # "none", verified' = verified \cup ({a} \cap Pinned),
             load' = [load EXCEPT ![l].k = @ + 1,
                        ![l].pc = IF k = Len(order) THEN "backend" ELSE @]
      PROVE  StackInv'
  <2> PICK p \in {"gate", "backend"} : p = IF k = Len(order) THEN "backend" ELSE "gate"
    OBVIOUS
  <2> DEFINE e == [load[l] EXCEPT !.k = k + 1, !.pc = p]
  <2>1. load' = [load EXCEPT ![l] = e]
    BY <1>1, <1>6 DEF StackInv, StackTypes
  <2>2. /\ e.pc = p /\ e.k = k + 1 /\ e.want = want
        /\ e \in [pc : Pcs, want : Seq(Role), k : Nat, mounted : Seq(Layer)]
    <3> DEFINE r == [load[l] EXCEPT !.k = k + 1]
    <3>1. /\ r \in [pc : Pcs, want : Seq(Role), k : Nat, mounted : Seq(Layer)]
          /\ r.k = k + 1 /\ r.want = want
      BY <1>1
    <3>2. e = [r EXCEPT !.pc = p]
      OBVIOUS
    <3> HIDE DEF e, r
    <3>3. /\ [r EXCEPT !.pc = p].pc = p /\ [r EXCEPT !.pc = p].k = r.k
          /\ [r EXCEPT !.pc = p].want = r.want
          /\ [r EXCEPT !.pc = p] \in [pc : Pcs, want : Seq(Role), k : Nat, mounted : Seq(Layer)]
      BY <3>1 DEF Pcs
    <3> QED BY <3>1, <3>2, <3>3
  <2> HIDE DEF e
  <2>3. verified' \subseteq Artifact /\ native' \in BOOLEAN /\ verified \subseteq verified'
    BY <1>3, <1>4, <1>6 DEF StackInv, StackTypes
  <2>4. /\ StackTypes' /\ load'[l] = e
        /\ \A m \in Threads : m # l => load'[m] = load[m]
        /\ \A m \in Loader : m # l => Gated(m)'
    BY <1>4, <2>1, <2>2, <2>3, ThreadStep
  <2>5. \A j \in 1..k : order[j] \in Pinned => order[j] \in verified'
    <3>1. \A j \in 1..k : j \in 1..(k - 1) \/ j = k
      BY <1>1
    <3> QED BY <1>1, <1>6, <3>1
  <2>6. Gated(l)'
    <3>1. load'[l].want = want /\ load'[l].k = k + 1 /\ load'[l].pc = p
      BY <2>2, <2>4
    <3>2. CASE p = "gate"
      <4>1. k + 1 \in 1..Len(order) /\ (k + 1) - 1 = k
        BY <1>1, <1>2, <3>2
      <4> QED BY <1>1, <2>5, <3>1, <3>2, <4>1 DEF Gated
    <3>3. CASE p = "backend"
      <4>1. k = Len(order) /\ DOMAIN order = 1..k
        BY <1>2, <3>3
      <4> QED BY <1>1, <2>5, <3>1, <3>3, <4>1 DEF Gated
    <3> QED BY <3>2, <3>3
  <2>7. OneCrate'
    BY <1>1, <1>4, <2>2, <2>4, CrateStep DEF StackTypes
  <2>8. VerifiedKept'
    BY <1>3, <1>4, <1>6 DEF StackInv, VerifiedKept, Genuine
  <2> QED BY <2>4, <2>6, <2>7, <2>8 DEF StackInv
<1> QED BY <1>5, <1>6 DEF GateArtifact

\* A step that only takes the thread to another place.
LEMMA ThreadGoes ==
  ASSUME StackInv, NEW l \in Threads, NEW p \in Pcs, LoadGoes(l, p),
         UNCHANGED <<disk, changes, verified>>, native' \in BOOLEAN
  PROVE  /\ StackTypes' /\ load'[l].pc = p /\ load'[l].want = load[l].want
         /\ \A m \in Threads : m # l => load'[m] = load[m]
         /\ \A m \in Loader : m # l => Gated(m)'
         /\ VerifiedKept'
<1> DEFINE e == [load[l] EXCEPT !.pc = p]
<1>1. load' = [load EXCEPT ![l] = e] /\ e.pc = p /\ e.want = load[l].want
      /\ e \in [pc : Pcs, want : Seq(Role), k : Nat, mounted : Seq(Layer)]
  BY DEF LoadGoes, StackInv, StackTypes
<1> HIDE DEF e
<1>2. verified' \subseteq Artifact
  BY DEF StackInv, StackTypes
<1>3. /\ StackTypes' /\ load'[l] = e
      /\ \A m \in Threads : m # l => load'[m] = load[m]
      /\ \A m \in Loader : m # l => Gated(m)'
  BY <1>1, <1>2, ThreadStep
<1>4. VerifiedKept'
  BY DEF StackInv, VerifiedKept
<1> QED BY <1>1, <1>3, <1>4

LEMMA StackEmbed ==
  ASSUME StackInv, "both" \notin LoadBeyond, NEW l \in Embedding, Embed(l)
  PROVE  StackInv'
<1>1. l \in Threads /\ l \notin Loader /\ "backend" \in Pcs
  BY StackAssumption DEF Threads, Pcs
<1>2. /\ LoadGoes(l, "backend") /\ LoadsAlone(l)
      /\ UNCHANGED <<disk, changes, verified, native, backend>> /\ native' \in BOOLEAN
  BY DEF Embed, StackInv, StackTypes
<1>3. /\ StackTypes' /\ load'[l].pc = "backend" /\ VerifiedKept'
      /\ \A m \in Threads : m # l => load'[m] = load[m]
      /\ \A m \in Loader : m # l => Gated(m)'
  BY <1>1, <1>2, ThreadGoes
<1>4. OneCrate'
  BY <1>1, <1>2, <1>3, CrateStart DEF StackTypes
<1> QED BY <1>1, <1>3, <1>4 DEF StackInv

LEMMA StackBackend ==
  ASSUME StackInv, NEW l \in Threads, FindBackend(l) \/ InitBackend(l)
  PROVE  StackInv'
<1>1. load[l].pc \in {"backend", "init_lock"}
  BY DEF FindBackend, InitBackend
<1>2. ASSUME InitBackend(l) PROVE ~(Crate(l) \notin backend /\ native)
  <2> SUFFICES ASSUME Crate(l) \notin backend, native PROVE FALSE
    OBVIOUS
  <2>1. PICK m \in Threads : Crate(m) \in backend
    BY DEF StackInv, OneCrate
  <2> QED BY <1>1, <2>1 DEF StackInv, OneCrate
<1>3. PICK p \in {"init_lock", "read"} : LoadGoes(l, p)
  BY <1>2 DEF FindBackend, InitBackend
<1>4. UNCHANGED <<disk, changes, verified>> /\ native' \in BOOLEAN /\ p \in Pcs
  BY DEF FindBackend, InitBackend, StackInv, StackTypes, Pcs
<1>5. /\ StackTypes' /\ load'[l].pc = p /\ load'[l].want = load[l].want
      /\ \A m \in Threads : m # l => load'[m] = load[m]
      /\ \A m \in Loader : m # l => Gated(m)'
      /\ VerifiedKept'
  BY <1>3, <1>4, ThreadGoes
<1>6. ASSUME l \in Loader PROVE Gated(l)'
  <2>1. Gated(l)
    BY <1>6 DEF StackInv
  <2> QED BY <1>1, <1>4, <1>5, <2>1 DEF Gated
<1>7. OneCrate'
  <2>1. CASE FindBackend(l)
    <3>1. UNCHANGED <<native, backend>> /\ load[l].pc # "idle"
      BY <1>1, <2>1 DEF FindBackend
    <3> QED BY <1>5, <3>1, CrateStep DEF StackTypes
  <2>2. CASE InitBackend(l)
    <3>1. native' = TRUE /\ backend' = backend \cup {Crate(l)}
      BY <1>2, <2>2 DEF InitBackend
    <3>2. Crate(l) \in {"engine", "embed"}
      BY DEF Crate
    <3>3. \A m \in Threads : load[m].pc # "idle" => Crate(m) = Crate(l)
      BY <1>1 DEF StackInv, OneCrate
    <3>4. \A m \in Threads : load'[m].pc = "idle" <=> load[m].pc = "idle"
      BY <1>1, <1>5
    <3>5. /\ backend \subseteq {"engine", "embed"}
          /\ \A x, m \in Threads : load[x].pc # "idle" /\ Crate(m) # Crate(x)
                => load[m].pc = "idle" /\ Crate(m) \notin backend
          /\ \A e \in backend : \E m \in Threads : Crate(m) = e
          /\ \A m \in Threads : load'[m].pc # "init"
      BY <1>5 DEF StackInv, OneCrate
    <3>6. \A m \in Threads : Crate(m)' = Crate(m)
      BY DEF Crate
    <3>7. \A x, m \in Threads : load'[x].pc # "idle" /\ Crate(m) # Crate(x)
             => load'[m].pc = "idle" /\ Crate(m) \notin backend'
      BY <3>1, <3>3, <3>4, <3>5
    <3> QED BY <3>1, <3>2, <3>5, <3>6, <3>7 DEF OneCrate
  <2> QED BY <2>1, <2>2
<1> QED BY <1>5, <1>6, <1>7 DEF StackInv

LEMMA StackRead ==
  ASSUME StackInv, NEW l \in Threads, NEW fails \in BOOLEAN, ReadStack(l, fails)
  PROVE  StackInv'
<1> DEFINE want == load[l].want
           order == IF l \in Loader THEN Order(want) ELSE << >>
           what == [j \in DOMAIN order |-> [art |-> order[j], file |-> disk[order[j]]]]
<1>1. /\ load[l] \in [pc : Pcs, want : Seq(Role), k : Nat, mounted : Seq(Layer)]
      /\ load[l].pc = "read" /\ UNCHANGED <<disk, changes, verified, native, backend>>
      /\ native' \in BOOLEAN /\ verified' \subseteq Artifact /\ verified \subseteq verified'
  BY DEF ReadStack, StackInv, StackTypes
<1>2. order \in Seq(Artifact)
  BY <1>1, OrderWhole
<1> HIDE DEF order
<1>3. PICK e \in [pc : Pcs, want : Seq(Role), k : Nat, mounted : Seq(Layer)] :
        /\ load' = [load EXCEPT ![l] = e] /\ e.want = want
        /\ \/ e.pc = "native_failed"
           \/ /\ e.pc = "loaded" /\ e.mounted = what
              /\ \A j \in DOMAIN order : disk[order[j]] # "none"
  <2>1. CASE LoadGoes(l, "native_failed")
    <3> DEFINE e == [load[l] EXCEPT !.pc = "native_failed"]
    <3>1. load' = [load EXCEPT ![l] = e] /\ e.pc = "native_failed" /\ e.want = want
          /\ e \in [pc : Pcs, want : Seq(Role), k : Nat, mounted : Seq(Layer)]
      BY <1>1, <2>1 DEF LoadGoes, StackInv, StackTypes, Pcs
    <3> HIDE DEF e
    <3> QED BY <3>1
  <2>2. CASE /\ ~(fails \/ \E j \in DOMAIN order : disk[order[j]] = "none")
             /\ load' = [load EXCEPT ![l].pc = "loaded", ![l].mounted = what]
    <3>1. what \in Seq(Layer)
      <4>1. \A j \in 1..Len(order) : what[j] \in Layer
        BY <1>2 DEF Layer, StackInv, StackTypes
      <4>2. Len(order) \in Nat /\ what = [j \in 1..Len(order) |-> what[j]]
        BY <1>2
      <4> QED BY <4>1, <4>2
    <3> HIDE DEF what
    <3> DEFINE r == [load[l] EXCEPT !.pc = "loaded"]
               e == [r EXCEPT !.mounted = what]
    <3>2. load' = [load EXCEPT ![l] = e]
      BY <2>2 DEF StackInv, StackTypes
    <3>3. /\ r \in [pc : Pcs, want : Seq(Role), k : Nat, mounted : Seq(Layer)]
          /\ r.pc = "loaded" /\ r.want = want
      BY <1>1 DEF Pcs
    <3> HIDE DEF r
    <3>4. /\ e \in [pc : Pcs, want : Seq(Role), k : Nat, mounted : Seq(Layer)]
          /\ e.pc = "loaded" /\ e.want = want /\ e.mounted = what
      BY <3>1, <3>3
    <3> HIDE DEF e
    <3> QED BY <2>2, <3>2, <3>4
  <2> QED BY <2>1, <2>2 DEF ReadStack, order
<1>4. /\ StackTypes' /\ load'[l] = e
      /\ \A m \in Threads : m # l => load'[m] = load[m]
      /\ \A m \in Loader : m # l => Gated(m)'
  BY <1>1, <1>3, ThreadStep
<1>5. ASSUME l \in Loader PROVE Gated(l)'
  <2>1. CASE e.pc = "native_failed"
    BY <1>4, <2>1 DEF Gated
  <2>2. CASE e.pc = "loaded" /\ e.mounted = what /\ \A j \in DOMAIN order : disk[order[j]] # "none"
    <3>1. /\ order = Order(want) /\ IsInjective(want) /\ want \in Seq(Role)
          /\ \A j \in DOMAIN order : order[j] \in Pinned => order[j] \in verified
      BY <1>1, <1>5 DEF StackInv, Gated, order
    <3>2. Len(what) = Len(want) + 1 /\ DOMAIN what = DOMAIN order
      BY <1>2, <3>1, OrderWhole
    <3>3. \A j \in DOMAIN order :
            /\ what[j].art = order[j]
            /\ what[j].art \in Pinned => what[j].file = "genuine"
      <4> TAKE j \in DOMAIN order
      <4>1. what[j].art = order[j] /\ what[j].file = disk[order[j]]
        OBVIOUS
      <4>2. order[j] \in Artifact /\ disk[order[j]] \in State /\ disk[order[j]] # "none"
        BY <1>2, <2>2 DEF StackInv, StackTypes
      <4>3. order[j] \in Pinned => disk[order[j]] # "other"
        BY <3>1 DEF StackInv, VerifiedKept
      <4> QED BY <4>1, <4>2, <4>3 DEF State
    <3> HIDE DEF what
    <3> QED BY <1>3, <1>4, <2>2, <3>1, <3>2, <3>3 DEF Gated
  <2> QED BY <1>3, <2>1, <2>2
<1>6. OneCrate'
  <2>1. load[l].pc # "idle" /\ load'[l].pc # "init"
    BY <1>1, <1>3, <1>4
  <2> QED BY <1>1, <1>4, <2>1, CrateStep DEF StackTypes
<1>7. VerifiedKept'
  BY <1>1 DEF StackInv, VerifiedKept
<1> QED BY <1>4, <1>5, <1>6, <1>7 DEF StackInv

LEMMA StackUnload ==
  ASSUME StackInv, NEW l \in Threads, Unload(l) PROVE StackInv'
<1>1. Resting \in [pc : Pcs, want : Seq(Role), k : Nat, mounted : Seq(Layer)]
      /\ Resting.pc = "idle"
  BY DEF Resting, Pcs
<1>2. /\ load' = [load EXCEPT ![l] = Resting] /\ load[l].pc # "idle"
      /\ UNCHANGED <<disk, changes, verified, native, backend>>
      /\ native' \in BOOLEAN /\ verified' \subseteq Artifact /\ verified \subseteq verified'
  BY DEF Unload, Ended, StackInv, StackTypes
<1>3. /\ StackTypes' /\ load'[l] = Resting
      /\ \A m \in Threads : m # l => load'[m] = load[m]
      /\ \A m \in Loader : m # l => Gated(m)'
  BY <1>1, <1>2, ThreadStep
<1>4. Gated(l)'
  BY <1>1, <1>3 DEF Gated
<1>5. OneCrate'
  BY <1>1, <1>2, <1>3, CrateStep DEF StackTypes
<1>6. VerifiedKept'
  BY <1>2 DEF StackInv, VerifiedKept
<1> QED BY <1>3, <1>4, <1>5, <1>6 DEF StackInv

LEMMA StackFile ==
  ASSUME StackInv, "replaced" \notin LoadBeyond, NEW a \in Artifact, NEW f \in State,
         FileChanges(a, f)
  PROVE  StackInv'
<1>1. /\ disk' = [disk EXCEPT ![a] = f] /\ UNCHANGED <<verified, native, backend, load>>
      /\ changes' = changes + 1 /\ ~(a \in verified /\ f = "other")
  BY DEF FileChanges
<1>2. StackTypes'
  BY <1>1 DEF StackInv, StackTypes
<1>3. VerifiedKept'
  BY <1>1 DEF StackInv, StackTypes, VerifiedKept
<1>4. OneCrate' /\ \A l \in Loader : Gated(l)'
  BY <1>1 DEF StackInv, OneCrate, Gated
<1> QED BY <1>2, <1>3, <1>4 DEF StackInv

\* Only a load of the engine goes through the gate.
GateOnly == \A l \in Threads : load[l].pc = "gate" => l \in Loader
LEMMA GateOnlyStep ==
  ASSUME StackTypes, GateOnly, [StackNext]_stackvars PROVE GateOnly'
<1>1. ASSUME NEW l \in Loader, NEW want \in Requests, Ask(l, want) PROVE GateOnly'
  <2>1. \A m \in Threads : m # l => load'[m] = load[m]
    BY <1>1 DEF Ask, StackTypes
  <2> QED BY <1>1, <2>1 DEF GateOnly
<1>2. ASSUME NEW l \in Embedding, Embed(l) PROVE GateOnly'
  <2>1. l \in Threads /\ LoadGoes(l, "backend")
    BY <1>2 DEF Embed, Threads
  <2> QED BY <2>1 DEF LoadGoes, GateOnly, StackTypes
<1>3. ASSUME NEW l \in Threads, LoadSteps(l) \/ Unload(l) PROVE GateOnly'
  <2>1. CASE GateArtifact(l)
    <3>1. \A m \in Threads : m # l => load'[m] = load[m]
      BY <2>1 DEF GateArtifact, LoadGoes, StackTypes
    <3> QED BY <2>1, <3>1 DEF GateArtifact, GateOnly
  <2>2. CASE FindBackend(l) \/ InitBackend(l)
    <3>1. \E p \in {"init_lock", "init", "read"} : LoadGoes(l, p)
      BY <2>2 DEF FindBackend, InitBackend
    <3> QED BY <3>1 DEF LoadGoes, GateOnly, StackTypes
  <2>3. ASSUME NEW fails \in BOOLEAN, ReadStack(l, fails) PROVE GateOnly'
    BY <2>3 DEF ReadStack, LoadGoes, GateOnly, StackTypes
  <2>4. CASE Unload(l)
    BY <2>4 DEF Unload, Resting, GateOnly, StackTypes
  <2> QED BY <1>3, <2>1, <2>2, <2>3, <2>4 DEF LoadSteps
<1>4. ASSUME UNCHANGED load PROVE GateOnly'
  BY <1>4 DEF GateOnly
<1> QED BY <1>1, <1>2, <1>3, <1>4 DEF StackNext, stackvars, Threads, FileChanges

LEMMA StackStep ==
  ASSUME StackInv, GateOnly, "both" \notin LoadBeyond, "replaced" \notin LoadBeyond,
         [StackNext]_stackvars
  PROVE  StackInv'
<1>1. ASSUME NEW l \in Threads, LoadSteps(l) PROVE StackInv'
  <2>1. CASE GateArtifact(l)
    <3>1. l \in Loader
      BY <2>1 DEF GateArtifact, GateOnly
    <3> QED BY <2>1, <3>1, StackGate
  <2>2. CASE FindBackend(l) \/ InitBackend(l)
    BY <2>2, StackBackend
  <2>3. CASE ReadStack(l, TRUE) \/ ReadStack(l, FALSE)
    BY <2>3, StackRead
  <2> QED BY <1>1, <2>1, <2>2, <2>3 DEF LoadSteps
<1>2. CASE UNCHANGED stackvars
  BY <1>2 DEF stackvars, StackInv, StackTypes, VerifiedKept, OneCrate, Gated, Crate
<1> QED
  BY <1>1, <1>2, StackAsk, StackEmbed, StackUnload, StackFile DEF StackNext, Threads, State

\* LoadedAsDeclared: unless a verified file is replaced, or the engine and the
\* embedder share a process, for any stacks, threads and pinned artifacts.
THEOREM StacksAsDeclared ==
  {"both", "replaced"} \cap LoadBeyond = {} => (StackSpec => []LoadedAsDeclared)
<1> SUFFICES ASSUME "both" \notin LoadBeyond, "replaced" \notin LoadBeyond
             PROVE  StackSpec => []LoadedAsDeclared
  OBVIOUS
<1>1. StackInit => StackInv /\ GateOnly
  BY StackInitial DEF StackInit, GateOnly, Resting, Threads
<1>2. StackInv /\ GateOnly /\ [StackNext]_stackvars => (StackInv /\ GateOnly)'
  BY StackStep, GateOnlyStep DEF StackInv
<1>3. StackInv => LoadedAsDeclared
  BY DEF StackInv, Gated, OneCrate, LoadedAsDeclared, Threads
<1> QED BY <1>1, <1>2, <1>3, PTL DEF StackSpec

-----------------------------------------------------------------------------
(* Turns *)

\* Texts are over the letters that there are.
Letter == UNION {Range(t) : t \in {OpenTag, CloseTag} \cup Pieces}
Utterance == Seq(Letter)

\* A set of numbers up to some number has a least.
LEMMA LeastOf ==
  ASSUME NEW h \in Nat, NEW S \in SUBSET (1..h), S # {}
  PROVE  \E x \in S : \A y \in S : x <= y
<1>1. IsFiniteSet(S) /\ \A x \in S : x \in Nat
  <2>1. IsFiniteSet(1..h)
    BY FS_Interval
  <2>2. S \in SUBSET (1..h)
    OBVIOUS
  <2>3. IsFiniteSet(S)
    BY ONLY <2>1, <2>2, FS_Subset
  <2>4. \A x \in S : x \in Nat
    BY ONLY <2>2, h \in Nat
  <2> QED BY <2>3, <2>4
<1>2. Orders(Less(S), S)
  <2>1. \A x, y \in S : <<x, y>> \in Less(S) <=> x < y
    BY DEF Less
  <2>2. \A x, y, z \in S : (x < y /\ y < z) => x < z
    BY <1>1
  <2>3. \A x, y \in S : (x = y \/ x < y \/ y < x) /\ ~(x < x)
    BY <1>1
  <2> HIDE DEF Less
  <2> QED BY <2>1, <2>2, <2>3 DEF Orders
<1>3. Cardinality(S) \in Nat \ {0}
  BY <1>1, FS_CardinalityType, FS_EmptySet
<1>4. PICK x \in S : Cardinality(Lower(S, Less(S), x)) = 0
  <2>1. 1 \in 1..Cardinality(S)
    BY <1>3
  <2>2. \A m \in 1..Cardinality(S) : \E x \in S : Cardinality(Lower(S, Less(S), x)) = m - 1
    BY <1>1, <1>2, Ranks
  <2> QED BY <2>1, <2>2
<1>5. Lower(S, Less(S), x) = {}
  <2>1. IsFiniteSet(Lower(S, Less(S), x))
    BY <1>1, <1>2, Ranks
  <2> QED BY <1>4, <2>1, FS_EmptySet
<1>6. \A y \in S : ~(<<y, x>> \in Less(S))
  BY <1>5 DEF Lower
<1>7. \A y \in S : ~(y < x)
  BY <1>6 DEF Less
<1> QED BY <1>1, <1>7

LEMMA TextsAre ==
  /\ OpenTag \in Utterance /\ CloseTag \in Utterance /\ Pieces \subseteq Utterance
<1>1. ASSUME NEW t \in {OpenTag, CloseTag} \cup Pieces PROVE t \in Utterance
  <2>1. t \in Seq(Range(t)) /\ Range(t) \subseteq Letter
    BY StreamAssumption DEF Letter
  <2>2. \A k \in 1..Len(t) : t[k] \in Letter
    BY <2>1
  <2> QED BY <2>1, <2>2 DEF Utterance
<1> QED BY <1>1

LEMMA FromFacts ==
  ASSUME NEW t \in Utterance, NEW h \in 1..(Len(t) + 1)
  PROVE  /\ From(t, h) \in Utterance /\ Len(From(t, h)) = Len(t) - h + 1
         /\ \A k \in 1..(Len(t) - h + 1) : From(t, h)[k] = t[h + k - 1]
BY DEF From, Utterance

LEMMA JoinFacts ==
  ASSUME NEW t \in Utterance, NEW p \in Utterance
  PROVE  /\ t \o p \in Utterance /\ Len(t \o p) = Len(t) + Len(p)
         /\ \A k \in 1..Len(t) : (t \o p)[k] = t[k]
         /\ \A k \in 1..Len(p) : (t \o p)[Len(t) + k] = p[k]
BY DEF Utterance

LEMMA SameTexts ==
  ASSUME NEW t \in Utterance, NEW p \in Utterance, Len(t) = Len(p),
         \A k \in 1..Len(t) : t[k] = p[k]
  PROVE  t = p
BY DEF Utterance

LEMMA PrefixFacts ==
  ASSUME NEW s \in Utterance, NEW t \in Utterance
  PROVE  IsPrefix(s, t) <=> Len(s) <= Len(t) /\ \A k \in 1..Len(s) : s[k] = t[k]
<1>1. /\ Len(s) \in Nat /\ Len(t) \in Nat
      /\ SubSeq(s, 1, Len(s)) \in Utterance /\ Len(SubSeq(s, 1, Len(s))) = Len(s)
      /\ \A k \in 1..Len(s) : SubSeq(s, 1, Len(s))[k] = s[k]
  BY DEF Utterance
<1>2. ASSUME Len(s) <= Len(t)
      PROVE  /\ SubSeq(t, 1, Len(s)) \in Utterance /\ Len(SubSeq(t, 1, Len(s))) = Len(s)
             /\ \A k \in 1..Len(s) : SubSeq(t, 1, Len(s))[k] = t[k]
  BY <1>1, <1>2 DEF Utterance
<1>3. ASSUME Len(s) <= Len(t)
      PROVE  SubSeq(s, 1, Len(s)) = SubSeq(t, 1, Len(s)) <=> \A k \in 1..Len(s) : s[k] = t[k]
  BY <1>1, <1>2, <1>3, SameTexts
<1> QED BY <1>3 DEF IsPrefix

LEMMA PrefixBoth ==
  ASSUME NEW s \in Utterance, NEW t \in Utterance
  PROVE  IsPrefix(s, t) /\ IsPrefix(t, s) <=> s = t
<1>1. Len(s) \in Nat /\ Len(t) \in Nat
  BY DEF Utterance
<1> QED BY <1>1, PrefixFacts, SameTexts

\* A tag that begins at h, and an end from h on with which a tag may begin.
LEMMA TagFacts ==
  ASSUME NEW t \in Utterance, NEW tag \in Utterance, NEW h \in 1..(Len(t) + 1)
  PROVE  /\ TagAt(t, tag, h) <=> /\ h + Len(tag) <= Len(t) + 1
                                 /\ \A k \in 1..Len(tag) : tag[k] = t[h + k - 1]
         /\ IsPrefix(From(t, h), tag) <=> /\ Len(t) - h + 1 <= Len(tag)
                                          /\ \A k \in 1..(Len(t) - h + 1) : tag[k] = t[h + k - 1]
<1>1. /\ From(t, h) \in Utterance /\ Len(From(t, h)) = Len(t) - h + 1
      /\ \A k \in 1..(Len(t) - h + 1) : From(t, h)[k] = t[h + k - 1]
  BY FromFacts
<1>2. Len(t) \in Nat /\ Len(tag) \in Nat
  BY DEF Utterance
<1>3. TagAt(t, tag, h) <=> /\ Len(tag) <= Len(t) - h + 1
                           /\ \A k \in 1..Len(tag) : tag[k] = From(t, h)[k]
  BY <1>1, PrefixFacts DEF TagAt
<1>4. IsPrefix(From(t, h), tag) <=> /\ Len(t) - h + 1 <= Len(tag)
                                    /\ \A k \in 1..(Len(t) - h + 1) : From(t, h)[k] = tag[k]
  BY <1>1, PrefixFacts
<1>5. ASSUME Len(tag) <= Len(t) - h + 1
      PROVE  \A k \in 1..Len(tag) : From(t, h)[k] = t[h + k - 1]
  BY <1>1, <1>2, <1>5
<1>6. TagAt(t, tag, h) <=> /\ Len(tag) <= Len(t) - h + 1
                           /\ \A k \in 1..Len(tag) : tag[k] = t[h + k - 1]
  BY <1>3, <1>5
<1>7. Len(tag) <= Len(t) - h + 1 <=> h + Len(tag) <= Len(t) + 1
  BY <1>2
<1>8. IsPrefix(From(t, h), tag) <=> /\ Len(t) - h + 1 <= Len(tag)
                                    /\ \A k \in 1..(Len(t) - h + 1) : tag[k] = t[h + k - 1]
  BY <1>1, <1>4
<1> QED BY <1>6, <1>7, <1>8

LEMMA TrimFacts ==
  ASSUME NEW t \in Utterance
  PROVE  \E h \in 1..(Len(t) + 1) :
           /\ TrimStart(t) = From(t, h) /\ (h <= Len(t) => t[h] \notin Blanks)
           /\ \A m \in 1..(h - 1) : t[m] \in Blanks
<1> DEFINE N == {h \in 1..(Len(t) + 1) : h <= Len(t) => t[h] \notin Blanks}
<1> DEFINE P(h) == (h <= Len(t) => t[h] \notin Blanks) /\ \A m \in 1..(h - 1) : t[m] \in Blanks
<1>1. Len(t) \in Nat
  BY DEF Utterance
<1>2. \E x \in N : \A y \in N : x <= y
  <2>1. N \in SUBSET (1..(Len(t) + 1)) /\ Len(t) + 1 \in N /\ Len(t) + 1 \in Nat
    BY <1>1
  <2>2. N # {}
    BY <2>1
  <2> HIDE DEF N
  <2> QED BY <2>1, <2>2, LeastOf
<1>3. \E h \in 1..(Len(t) + 1) : P(h)
  BY <1>1, <1>2
<1>4. TrimStart(t) = From(t, CHOOSE h \in 1..(Len(t) + 1) : P(h))
  BY DEF TrimStart
<1> HIDE DEF P
<1>5. PICK h \in 1..(Len(t) + 1) : TrimStart(t) = From(t, h) /\ P(h)
  BY <1>3, <1>4
<1> QED BY <1>5 DEF P

LEMMA FromOnce ==
  ASSUME NEW t \in Utterance, NEW p \in Utterance, NEW h \in 1..(Len(t) + 1)
  PROVE  From(t \o p, h) = From(t, h) \o p
<1>1. Len(t) \in Nat /\ Len(p) \in Nat
  BY DEF Utterance
<1>2. PICK u \in Utterance : /\ u = t \o p /\ Len(u) = Len(t) + Len(p)
                             /\ \A k \in 1..Len(t) : u[k] = t[k]
                             /\ \A k \in 1..Len(p) : u[Len(t) + k] = p[k]
  BY JoinFacts
<1>3. PICK e \in Utterance : /\ e = From(t, h) /\ Len(e) = Len(t) - h + 1
                             /\ \A k \in 1..(Len(t) - h + 1) : e[k] = t[h + k - 1]
  BY FromFacts
<1>4. PICK v \in Utterance : /\ v = e \o p /\ Len(v) = Len(e) + Len(p)
                             /\ \A k \in 1..Len(e) : v[k] = e[k]
                             /\ \A k \in 1..Len(p) : v[Len(e) + k] = p[k]
  BY JoinFacts
<1>5. h \in 1..(Len(u) + 1)
  BY <1>1, <1>2
<1>6. /\ From(u, h) \in Utterance /\ Len(From(u, h)) = Len(u) - h + 1
      /\ \A k \in 1..(Len(u) - h + 1) : From(u, h)[k] = u[h + k - 1]
  BY <1>5, FromFacts
<1>7. Len(From(u, h)) = Len(v)
  BY <1>1, <1>2, <1>3, <1>4, <1>6
<1>8. ASSUME NEW k \in 1..Len(v) PROVE From(u, h)[k] = v[k]
  <2>1. CASE k <= Len(e)
    <3>1. v[k] = t[h + k - 1] /\ h + k - 1 \in 1..Len(t)
      BY <1>1, <1>3, <1>4, <2>1
    <3>2. From(u, h)[k] = u[h + k - 1]
      BY <1>6, <1>7
    <3> QED BY <1>2, <3>1, <3>2
  <2>2. CASE ~(k <= Len(e))
    <3>1. PICK j \in 1..Len(p) : k = Len(e) + j
      <4>1. k - Len(e) \in 1..Len(p) /\ k = Len(e) + (k - Len(e))
        BY <1>1, <1>3, <1>4, <2>2
      <4> QED BY <4>1
    <3>2. h + k - 1 = Len(t) + j
      BY <1>1, <1>3, <3>1
    <3>3. From(u, h)[k] = u[Len(t) + j]
      <4>1. From(u, h)[k] = u[h + k - 1]
        BY <1>6, <1>7
      <4> QED BY <3>2, <4>1
    <3> QED BY <1>2, <1>4, <3>1, <3>3
  <2> QED BY <2>1, <2>2
<1> QED BY <1>2, <1>3, <1>4, <1>6, <1>7, <1>8, SameTexts

LEMMA FromTwice ==
  ASSUME NEW t \in Utterance, NEW h \in 1..(Len(t) + 1), NEW m \in 1..(Len(t) - h + 2)
  PROVE  From(From(t, h), m) = From(t, h + m - 1) /\ h + m - 1 \in 1..(Len(t) + 1)
<1>1. Len(t) \in Nat
  BY DEF Utterance
<1>2. PICK e \in Utterance : /\ e = From(t, h) /\ Len(e) = Len(t) - h + 1
                             /\ \A k \in 1..(Len(t) - h + 1) : e[k] = t[h + k - 1]
  BY FromFacts
<1>3. m \in 1..(Len(e) + 1) /\ h + m - 1 \in 1..(Len(t) + 1)
  BY <1>1, <1>2
<1>4. /\ From(e, m) \in Utterance /\ Len(From(e, m)) = Len(e) - m + 1
      /\ \A k \in 1..(Len(e) - m + 1) : From(e, m)[k] = e[m + k - 1]
  BY <1>3, FromFacts
<1>5. PICK q \in 1..(Len(t) + 1) : q = h + m - 1
  BY <1>3
<1>6. /\ From(t, q) \in Utterance /\ Len(From(t, q)) = Len(t) - q + 1
      /\ \A k \in 1..(Len(t) - q + 1) : From(t, q)[k] = t[q + k - 1]
  BY FromFacts
<1>7. Len(From(e, m)) = Len(From(t, q))
  BY <1>1, <1>2, <1>4, <1>5, <1>6
<1>10. /\ Len(t) \in Int /\ h \in Int /\ m \in Int /\ m >= 1 /\ h >= 1
       /\ Len(e) = Len(t) - h + 1 /\ q = h + m - 1
  BY <1>1, <1>2, <1>5
<1>8. ASSUME NEW k \in 1..(Len(e) - m + 1) PROVE From(e, m)[k] = From(t, q)[k]
  <2>5. k \in Int /\ 1 <= k /\ k <= Len(e) - m + 1
    BY <1>10
  <2>6. m + k - 1 \in 1..(Len(t) - h + 1)
    BY ONLY <1>10, <2>5
  <2>1. PICK j \in 1..(Len(t) - h + 1) : j = m + k - 1
    BY <2>6
  <2>2. From(e, m)[k] = t[h + j - 1]
    <3>1. From(e, m)[k] = e[j]
      BY <1>4, <2>1
    <3> QED BY <1>2, <3>1
  <2>3. h + j - 1 = q + k - 1 /\ k \in 1..(Len(t) - q + 1)
    BY ONLY <1>10, <2>1, <2>5
  <2>4. From(t, q)[k] = t[q + k - 1]
    BY <1>6, <2>3
  <2> QED BY <2>2, <2>3, <2>4
<1>9. From(e, m) = From(t, q)
  BY <1>4, <1>6, <1>7, <1>8, SameTexts
<1> QED BY <1>2, <1>3, <1>5, <1>9

\* The white space before what is whole is the same when more is whole.
LEMMA TrimOnce ==
  ASSUME NEW t \in Utterance, NEW p \in Utterance, TrimStart(t) # <<>>
  PROVE  TrimStart(t \o p) = TrimStart(t) \o p
<1>1. Len(t) \in Nat /\ Len(p) \in Nat
  BY DEF Utterance
<1>2. /\ t \o p \in Utterance /\ Len(t \o p) = Len(t) + Len(p)
      /\ \A k \in 1..Len(t) : (t \o p)[k] = t[k]
      /\ \A k \in 1..Len(p) : (t \o p)[Len(t) + k] = p[k]
  BY JoinFacts
<1>3. PICK h \in 1..(Len(t) + 1) :
           /\ TrimStart(t) = From(t, h) /\ (h <= Len(t) => t[h] \notin Blanks)
           /\ \A m \in 1..(h - 1) : t[m] \in Blanks
  BY TrimFacts
<1>4. PICK e \in 1..(Len(t \o p) + 1) :
           /\ TrimStart(t \o p) = From(t \o p, e)
           /\ (e <= Len(t \o p) => (t \o p)[e] \notin Blanks)
           /\ \A m \in 1..(e - 1) : (t \o p)[m] \in Blanks
  BY <1>2, TrimFacts
<1>5. h <= Len(t)
  <2>1. h = Len(t) + 1 => From(t, h) = <<>>
    BY <1>1 DEF From, Utterance
  <2> QED BY <1>1, <1>3, <2>1
<1>6. e = h
  <2>1. ~(e < h)
    BY <1>1, <1>2, <1>3, <1>4, <1>5
  <2>2. ~(h < e)
    BY <1>1, <1>2, <1>3, <1>4, <1>5
  <2> QED BY <1>1, <1>3, <1>4, <2>1, <2>2
<1>7. From(t \o p, h) = From(t, h) \o p
  BY FromOnce
<1> QED BY <1>3, <1>4, <1>6, <1>7

\* The first place of a tag, and the first end of a text with which it may begin.
LEMMA AfterFacts ==
  ASSUME NEW t \in Utterance, NEW tag \in Utterance, Has(t, tag)
  PROVE  \E h \in DOMAIN t : /\ After(t, tag) = From(t, h + Len(tag)) /\ TagAt(t, tag, h)
                             /\ \A m \in 1..(h - 1) : ~TagAt(t, tag, m)
<1> DEFINE N == {h \in DOMAIN t : TagAt(t, tag, h)}
<1> DEFINE P(h) == TagAt(t, tag, h) /\ \A m \in 1..(h - 1) : ~TagAt(t, tag, m)
<1>1. Len(t) \in Nat /\ DOMAIN t = 1..Len(t)
  BY DEF Utterance
<1>2. \E x \in N : \A y \in N : x <= y
  <2>1. N \in SUBSET (1..Len(t)) /\ N # {}
    BY <1>1 DEF Has
  <2> HIDE DEF N
  <2> QED BY <1>1, <2>1, LeastOf
<1>3. \E h \in DOMAIN t : P(h)
  <2>1. PICK x \in N : \A y \in N : x <= y
    BY <1>2
  <2>2. \A m \in 1..(x - 1) : ~TagAt(t, tag, m)
    BY <1>1, <2>1
  <2> QED BY <2>1, <2>2
<1>4. After(t, tag) = From(t, (CHOOSE h \in DOMAIN t : P(h)) + Len(tag))
  BY DEF After
<1> HIDE DEF P
<1>5. PICK h \in DOMAIN t : After(t, tag) = From(t, h + Len(tag)) /\ P(h)
  BY <1>3, <1>4
<1> QED BY <1>5 DEF P

\* An end of a text with which no earlier one may begin the tag.
Tight(b, t, tag) ==
  \E h \in 1..(Len(t) + 1) : /\ b = From(t, h)
                             /\ \A m \in 1..(h - 1) : ~IsPrefix(From(t, m), tag)
LEMMA SuffixFacts ==
  ASSUME NEW t \in Utterance, NEW tag \in Utterance
  PROVE  Tight(PartialSuffix(t, tag), t, tag)
<1> DEFINE N == {h \in 1..(Len(t) + 1) : IsPrefix(From(t, h), tag)}
<1> DEFINE P(h) == IsPrefix(From(t, h), tag) /\ \A m \in 1..(h - 1) : ~IsPrefix(From(t, m), tag)
<1>1. Len(t) \in Nat /\ Len(tag) \in Nat
  BY DEF Utterance
<1>2. \E x \in N : \A y \in N : x <= y
  <2>1. Len(t) + 1 \in 1..(Len(t) + 1)
    BY <1>1
  <2>2. IsPrefix(From(t, Len(t) + 1), tag)
    <3>1. PICK h \in 1..(Len(t) + 1) : h = Len(t) + 1
      BY <2>1
    <3>2. Len(t) - h + 1 = 0
      BY <1>1, <3>1
    <3> QED BY <1>1, <3>1, <3>2, TagFacts
  <2>3. N \in SUBSET (1..(Len(t) + 1)) /\ N # {} /\ Len(t) + 1 \in Nat
    BY <1>1, <2>1, <2>2
  <2> HIDE DEF N
  <2> QED BY <2>3, LeastOf
<1>3. \E h \in 1..(Len(t) + 1) : P(h)
  <2>1. PICK x \in N : \A y \in N : x <= y
    BY <1>2
  <2>2. \A m \in 1..(x - 1) : ~IsPrefix(From(t, m), tag)
    BY <1>1, <2>1
  <2> QED BY <2>1, <2>2
<1>4. PartialSuffix(t, tag) = From(t, CHOOSE h \in 1..(Len(t) + 1) : P(h))
  BY DEF PartialSuffix
<1> HIDE DEF P
<1>5. PICK h \in 1..(Len(t) + 1) : PartialSuffix(t, tag) = From(t, h) /\ P(h)
  BY <1>3, <1>4
<1> QED BY <1>5 DEF P, Tight

\* What follows the first place of a tag grows with the text.
LEMMA AfterOnce ==
  ASSUME NEW t \in Utterance, NEW p \in Utterance, NEW tag \in Utterance, tag # <<>>,
         Has(t, tag)
  PROVE  /\ Has(t \o p, tag) /\ After(t \o p, tag) = After(t, tag) \o p
         /\ After(t, tag) \in Utterance
<1>1. Len(t) \in Nat /\ Len(p) \in Nat /\ Len(tag) \in Nat \ {0} /\ DOMAIN t = 1..Len(t)
  BY DEF Utterance
<1>2. PICK u \in Utterance : /\ u = t \o p /\ Len(u) = Len(t) + Len(p)
                             /\ \A k \in 1..Len(t) : u[k] = t[k]
                             /\ \A k \in 1..Len(p) : u[Len(t) + k] = p[k]
  BY JoinFacts
<1>3. PICK h \in DOMAIN t : /\ After(t, tag) = From(t, h + Len(tag)) /\ TagAt(t, tag, h)
                            /\ \A m \in 1..(h - 1) : ~TagAt(t, tag, m)
  BY AfterFacts
<1>4. h + Len(tag) \in 1..(Len(t) + 1)
  BY <1>1, <1>3, TagFacts
<1>5. ASSUME NEW m \in 1..h PROVE TagAt(u, tag, m) <=> TagAt(t, tag, m)
  <2>1. m + Len(tag) <= Len(t) + 1 /\ m \in 1..(Len(t) + 1) /\ m \in 1..(Len(u) + 1)
    BY <1>1, <1>2, <1>4
  <2>2. \A k \in 1..Len(tag) : u[m + k - 1] = t[m + k - 1]
    BY <1>1, <1>2, <2>1
  <2>3. TagAt(u, tag, m) <=> /\ m + Len(tag) <= Len(u) + 1
                             /\ \A k \in 1..Len(tag) : tag[k] = u[m + k - 1]
    BY <2>1, TagFacts
  <2>4. TagAt(t, tag, m) <=> /\ m + Len(tag) <= Len(t) + 1
                             /\ \A k \in 1..Len(tag) : tag[k] = t[m + k - 1]
    BY <2>1, TagFacts
  <2>5. m + Len(tag) <= Len(u) + 1
    BY <1>1, <1>2, <2>1
  <2> QED BY <2>1, <2>2, <2>3, <2>4, <2>5
<1>6. h \in DOMAIN u /\ DOMAIN u = 1..Len(u) /\ h \in 1..h
  BY <1>1, <1>2 DEF Utterance
<1>7. Has(u, tag)
  BY <1>3, <1>5, <1>6 DEF Has
<1>8. PICK e \in DOMAIN u : /\ After(u, tag) = From(u, e + Len(tag)) /\ TagAt(u, tag, e)
                            /\ \A m \in 1..(e - 1) : ~TagAt(u, tag, m)
  BY <1>7, AfterFacts
<1>9. e = h
  <2>1. ~(e < h)
    BY <1>1, <1>3, <1>5, <1>6, <1>8
  <2>2. ~(h < e)
    BY <1>1, <1>3, <1>5, <1>6, <1>8
  <2> QED BY <1>1, <1>6, <1>8, <2>1, <2>2
<1>10. From(u, h + Len(tag)) = From(t, h + Len(tag)) \o p
  BY <1>2, <1>4, FromOnce
<1> QED BY <1>2, <1>3, <1>4, <1>7, <1>8, <1>9, <1>10, FromFacts

\* A tag that is looked for in a tight end of a text is found where it is in it.
LEMMA TightFinds ==
  ASSUME NEW r \in Utterance, NEW p \in Utterance, NEW tag \in Utterance, NEW b,
         tag # <<>>, ~Has(r, tag), Tight(b, r, tag)
  PROVE  /\ b \in Utterance
         /\ Has(r \o p, tag) <=> Has(b \o p, tag)
         /\ Has(r \o p, tag) => After(r \o p, tag) = After(b \o p, tag)
         /\ Tight(PartialSuffix(b \o p, tag), r \o p, tag)
<1>1. Len(r) \in Nat /\ Len(p) \in Nat /\ Len(tag) \in Nat \ {0} /\ DOMAIN r = 1..Len(r)
  BY DEF Utterance
<1>2. PICK u \in Utterance : /\ u = r \o p /\ Len(u) = Len(r) + Len(p)
                             /\ \A k \in 1..Len(r) : u[k] = r[k]
  BY JoinFacts
<1>3. PICK h \in 1..(Len(r) + 1) : /\ b = From(r, h)
                                   /\ \A m \in 1..(h - 1) : ~IsPrefix(From(r, m), tag)
  BY DEF Tight
<1>4. b \in Utterance
  BY <1>3, FromFacts
<1>5. PICK v \in Utterance : v = b \o p
  BY <1>4, JoinFacts
<1>6. v = From(u, h) /\ h \in 1..(Len(u) + 1) /\ Len(v) = Len(u) - h + 1
  <2>1. v = From(u, h)
    BY <1>2, <1>3, <1>5, FromOnce
  <2>2. h \in 1..(Len(u) + 1)
    BY <1>1, <1>2
  <2> QED BY <2>1, <2>2, FromFacts
<1>7. ASSUME NEW m \in 1..(h - 1) PROVE ~TagAt(u, tag, m) /\ ~IsPrefix(From(u, m), tag)
  <2>1. m \in DOMAIN r /\ m \in 1..(Len(r) + 1) /\ m \in 1..(Len(u) + 1)
    BY <1>1, <1>2
  <2>2. \A k \in 1..(Len(r) - m + 1) : u[m + k - 1] = r[m + k - 1]
    BY <1>1, <1>2, <2>1
  <2>3. ~TagAt(r, tag, m) /\ ~IsPrefix(From(r, m), tag)
    BY <1>3, <2>1 DEF Has
  <2>4. ~(/\ Len(r) - m + 1 <= Len(tag)
          /\ \A k \in 1..(Len(r) - m + 1) : tag[k] = r[m + k - 1])
    BY <2>1, <2>3, TagFacts
  <2>5. ~TagAt(u, tag, m)
    <3>1. SUFFICES ASSUME TagAt(u, tag, m) PROVE FALSE
      OBVIOUS
    <3>2. m + Len(tag) <= Len(u) + 1 /\ \A k \in 1..Len(tag) : tag[k] = u[m + k - 1]
      BY <2>1, <3>1, TagFacts
    <3>3. CASE m + Len(tag) <= Len(r) + 1
      <4>1. ASSUME NEW k \in 1..Len(tag) PROVE tag[k] = r[m + k - 1]
        <5>1. k \in 1..(Len(r) - m + 1)
          <6>1. Len(r) \in Int /\ Len(tag) \in Int /\ m \in Int /\ k \in Int
            BY <1>1, <2>1
          <6> QED BY ONLY <3>3, <4>1, <6>1
        <5> QED BY <2>2, <3>2, <5>1
      <4>2. TagAt(r, tag, m)
        BY <2>1, <3>3, <4>1, TagFacts
      <4> QED BY <2>3, <4>2
    <3>4. CASE ~(m + Len(tag) <= Len(r) + 1)
      <4>1. Len(r) - m + 1 <= Len(tag)
        BY <1>1, <2>1, <3>4
      <4>2. \A k \in 1..(Len(r) - m + 1) : tag[k] = r[m + k - 1]
        BY <1>1, <2>1, <2>2, <3>2, <4>1
      <4> QED BY <1>1, <2>1, <2>4, <4>1, <4>2
    <3> QED BY <3>3, <3>4
  <2>6. ~IsPrefix(From(u, m), tag)
    <3>1. SUFFICES ASSUME IsPrefix(From(u, m), tag) PROVE FALSE
      OBVIOUS
    <3>2. Len(u) - m + 1 <= Len(tag) /\ \A k \in 1..(Len(u) - m + 1) : tag[k] = u[m + k - 1]
      BY <2>1, <3>1, TagFacts
    <3>4. Len(r) \in Int /\ Len(tag) \in Int /\ m \in Int /\ Len(p) \in Nat /\ Len(u) = Len(r) + Len(p)
      BY <1>1, <1>2, <2>1
    <3>5. Len(u) - m + 1 <= Len(tag)
      BY <3>2
    <3>3. Len(r) - m + 1 <= Len(tag) /\ \A k \in 1..(Len(r) - m + 1) : tag[k] = r[m + k - 1]
      <4>1. Len(r) - m + 1 <= Len(tag)
        BY ONLY <3>4, <3>5
      <4>2. ASSUME NEW k \in 1..(Len(r) - m + 1) PROVE tag[k] = r[m + k - 1]
        <5>1. k \in 1..(Len(u) - m + 1)
          BY ONLY <3>4, <4>2
        <5> QED BY <2>2, <3>2, <5>1
      <4> QED BY <4>1, <4>2
    <3> QED BY <1>1, <2>1, <2>4, <3>3
  <2> QED BY <2>5, <2>6
<1>8. ASSUME NEW j \in 1..(Len(v) + 1)
      PROVE  /\ h + j - 1 \in 1..(Len(u) + 1) /\ From(v, j) = From(u, h + j - 1)
             /\ TagAt(v, tag, j) <=> TagAt(u, tag, h + j - 1)
  <2>1. j \in 1..(Len(u) - h + 2)
    BY <1>1, <1>2, <1>6
  <2>2. From(v, j) = From(u, h + j - 1) /\ h + j - 1 \in 1..(Len(u) + 1)
    BY <1>6, <2>1, FromTwice
  <2> QED BY <2>2 DEF TagAt
<1>9. ASSUME NEW m \in 1..(Len(u) + 1), ~(m \in 1..(h - 1))
      PROVE  \E j \in 1..(Len(v) + 1) : m = h + j - 1
  <2>1. m - h + 1 \in 1..(Len(v) + 1) /\ m = h + (m - h + 1) - 1
    BY <1>1, <1>2, <1>6, <1>9
  <2> QED BY <2>1
<1>10. DOMAIN u = 1..Len(u) /\ DOMAIN v = 1..Len(v) /\ Len(u) \in Nat /\ Len(v) \in Nat
  BY DEF Utterance
<1>11. Has(u, tag) => Has(v, tag)
  <2>1. SUFFICES ASSUME NEW m \in DOMAIN u, TagAt(u, tag, m) PROVE Has(v, tag)
    BY DEF Has
  <2>2. m \in 1..(Len(u) + 1) /\ ~(m \in 1..(h - 1))
    BY <1>7, <1>10, <2>1
  <2>3. PICK j \in 1..(Len(v) + 1) : m = h + j - 1
    BY <1>9, <2>2
  <2>4. TagAt(v, tag, j) /\ j \in DOMAIN v
    BY <1>6, <1>8, <1>10, <2>1, <2>3
  <2> QED BY <2>4 DEF Has
<1>12. Has(v, tag) => Has(u, tag)
  <2>1. SUFFICES ASSUME NEW j \in DOMAIN v, TagAt(v, tag, j) PROVE Has(u, tag)
    BY DEF Has
  <2>2. j \in 1..(Len(v) + 1) /\ h + j - 1 \in DOMAIN u
    BY <1>1, <1>2, <1>6, <1>10
  <2>3. TagAt(u, tag, h + j - 1)
    BY <1>8, <2>1, <2>2
  <2> QED BY <2>2, <2>3 DEF Has
<1>13. ASSUME Has(u, tag) PROVE After(u, tag) = After(v, tag)
  <2>1. PICK m \in DOMAIN u : /\ After(u, tag) = From(u, m + Len(tag)) /\ TagAt(u, tag, m)
                              /\ \A k \in 1..(m - 1) : ~TagAt(u, tag, k)
    BY <1>13, AfterFacts
  <2>2. PICK j \in DOMAIN v : /\ After(v, tag) = From(v, j + Len(tag)) /\ TagAt(v, tag, j)
                              /\ \A k \in 1..(j - 1) : ~TagAt(v, tag, k)
    BY <1>11, <1>13, AfterFacts
  <2>3. j + Len(tag) \in 1..(Len(v) + 1) /\ j \in 1..(Len(v) + 1)
    BY <1>1, <1>10, <2>2, TagFacts
  <2>4. TagAt(u, tag, h + j - 1)
    BY <1>8, <2>2, <2>3
  <2>5. ~(h + j - 1 < m)
    <3>1. h + j - 1 < m => h + j - 1 \in 1..(m - 1)
      BY <1>10, <2>2
    <3> QED BY <2>1, <2>4, <3>1
  <2>6. m \in 1..(Len(u) + 1) /\ ~(m \in 1..(h - 1))
    BY <1>7, <1>10, <2>1
  <2>7. PICK l \in 1..(Len(v) + 1) : m = h + l - 1
    BY <1>9, <2>6
  <2>8. TagAt(v, tag, l)
    BY <1>8, <2>1, <2>7
  <2>9. l = j
    <3>1. l < j => l \in 1..(j - 1)
      BY <1>10, <2>2
    <3>2. ~(l < j)
      BY <2>2, <2>8, <3>1
    <3> QED BY <1>10, <2>2, <2>5, <2>7, <3>2
  <2>10. From(v, j + Len(tag)) = From(u, h + (j + Len(tag)) - 1)
    BY <1>8, <2>3
  <2>11. h + (j + Len(tag)) - 1 = m + Len(tag)
    BY <1>1, <1>10, <2>2, <2>7, <2>9
  <2> QED BY <2>1, <2>2, <2>10, <2>11
<1>14. Tight(PartialSuffix(v, tag), u, tag)
  <2>1. PICK j \in 1..(Len(v) + 1) :
          /\ PartialSuffix(v, tag) = From(v, j)
          /\ \A m \in 1..(j - 1) : ~IsPrefix(From(v, m), tag)
    BY SuffixFacts DEF Tight
  <2>2. PICK q \in 1..(Len(u) + 1) : q = h + j - 1 /\ PartialSuffix(v, tag) = From(u, q)
    BY <1>8, <2>1
  <2>3. ASSUME NEW m \in 1..(q - 1) PROVE ~IsPrefix(From(u, m), tag)
    <3>1. CASE m \in 1..(h - 1)
      BY <1>7, <3>1
    <3>2. CASE ~(m \in 1..(h - 1))
      <4>1. PICK l \in 1..(Len(v) + 1) : m = h + l - 1
        BY <1>9, <1>10, <2>2, <3>2
      <4>2. l \in 1..(j - 1)
        BY <1>10, <2>2, <4>1
      <4>3. From(v, l) = From(u, m)
        BY <1>8, <4>1
      <4> QED BY <2>1, <4>2, <4>3
    <3> QED BY <3>1, <3>2
  <2> QED BY <2>2, <2>3 DEF Tight
<1> QED BY <1>2, <1>4, <1>5, <1>11, <1>12, <1>13, <1>14

-----------------------------------------------------------------------------
Rest(u) == From(TrimStart(u), Len(OpenTag) + 1)
Opens(u) == IsPrefix(OpenTag, TrimStart(u))
MayOpen(u) == IsPrefix(TrimStart(u), OpenTag)
Cleared(given, rest) ==
  /\ Has(rest, CloseTag)
  /\ \/ given = After(rest, CloseTag)
     \/ BreaksLine(After(rest, CloseTag)) /\ given = From(After(rest, CloseTag), 2)

StripInv ==
  /\ spoken \in Utterance /\ shown \in Utterance /\ buffer \in Utterance
  /\ strips \in BOOLEAN
  /\ strip \in {"deciding", "inside", "pass", "panic"} /\ (strip = "panic" => gen = "panic")
  /\ ~strips => strip = "pass" /\ shown = spoken
  /\ strip = "deciding" =>
       shown = <<>> /\ buffer = spoken /\ MayOpen(spoken) /\ ~Opens(spoken)
  /\ strip \in {"inside", "panic"} =>
       shown = <<>> /\ Opens(spoken) /\ ~Has(Rest(spoken), CloseTag)
  /\ strip = "inside" => Tight(buffer, Rest(spoken), CloseTag)
  /\ strip = "pass" /\ strips =>
       \/ ~MayOpen(spoken) /\ ~Opens(spoken) /\ shown = spoken
       \/ Opens(spoken) /\ Cleared(shown, Rest(spoken))

\* What is whole after the beginning that says whether a block is opened.
LEMMA OpensOnce ==
  ASSUME NEW u \in Utterance, NEW p \in Utterance
  PROVE  /\ TrimStart(u) \in Utterance
         /\ Opens(u) => /\ Opens(u \o p) /\ Rest(u) \in Utterance
                        /\ Rest(u \o p) = Rest(u) \o p
         /\ ~MayOpen(u) /\ ~Opens(u) => ~MayOpen(u \o p) /\ ~Opens(u \o p)
<1>1. PICK t \in Utterance : t = TrimStart(u)
  BY TrimFacts, FromFacts
<1>2. Len(t) \in Nat /\ Len(p) \in Nat /\ Len(OpenTag) \in Nat \ {0} /\ OpenTag \in Utterance
  BY StreamAssumption, TextsAre DEF Utterance
<1>3. PICK x \in Utterance : /\ x = t \o p /\ Len(x) = Len(t) + Len(p)
                             /\ \A k \in 1..Len(t) : x[k] = t[k]
  BY JoinFacts
<1>4. ASSUME t # <<>> PROVE TrimStart(u \o p) = x
  BY <1>1, <1>3, <1>4, TrimOnce
<1>5. /\ Opens(u) <=> Len(OpenTag) <= Len(t) /\ \A k \in 1..Len(OpenTag) : OpenTag[k] = t[k]
      /\ MayOpen(u) <=> Len(t) <= Len(OpenTag) /\ \A k \in 1..Len(t) : t[k] = OpenTag[k]
  BY <1>1, <1>2, PrefixFacts DEF Opens, MayOpen
<1>6. /\ IsPrefix(OpenTag, x) <=> /\ Len(OpenTag) <= Len(x)
                                  /\ \A k \in 1..Len(OpenTag) : OpenTag[k] = x[k]
      /\ IsPrefix(x, OpenTag) <=> /\ Len(x) <= Len(OpenTag)
                                  /\ \A k \in 1..Len(x) : x[k] = OpenTag[k]
  BY <1>2, PrefixFacts
<1>7. t = <<>> => Len(t) = 0
  OBVIOUS
<1>8. ASSUME Opens(u)
      PROVE  Opens(u \o p) /\ Rest(u) \in Utterance /\ Rest(u \o p) = Rest(u) \o p
  <2>1. t # <<>> /\ Len(OpenTag) + 1 \in 1..(Len(t) + 1)
    BY <1>2, <1>5, <1>7, <1>8
  <2>2. IsPrefix(OpenTag, x)
    BY <1>2, <1>3, <1>5, <1>6, <1>8
  <2>3. From(x, Len(OpenTag) + 1) = From(t, Len(OpenTag) + 1) \o p
    BY <1>3, <2>1, FromOnce
  <2>4. From(t, Len(OpenTag) + 1) \in Utterance
    BY <2>1, FromFacts
  <2> QED BY <1>1, <1>4, <2>1, <2>2, <2>3, <2>4 DEF Opens, Rest
<1>9. ASSUME ~MayOpen(u), ~Opens(u) PROVE ~MayOpen(u \o p) /\ ~Opens(u \o p)
  <2>1. t # <<>>
    BY <1>2, <1>5, <1>7, <1>9
  <2>2. ~IsPrefix(OpenTag, x)
    <3>1. SUFFICES ASSUME Len(OpenTag) <= Len(x),
                          \A k \in 1..Len(OpenTag) : OpenTag[k] = x[k]
                   PROVE  FALSE
      BY <1>6
    <3>2. CASE Len(OpenTag) <= Len(t)
      BY <1>2, <1>3, <1>5, <1>9, <3>1, <3>2
    <3>3. CASE Len(t) <= Len(OpenTag)
      BY <1>2, <1>3, <1>5, <1>9, <3>1, <3>3
    <3> QED BY <1>2, <3>2, <3>3
  <2>3. ~IsPrefix(x, OpenTag)
    BY <1>2, <1>3, <1>5, <1>6, <1>9
  <2> QED BY <1>4, <2>1, <2>2, <2>3 DEF Opens, MayOpen
<1> QED BY <1>1, <1>8, <1>9

\* What is shown after a block grows with what is whole after it.
LEMMA ClearedOnce ==
  ASSUME NEW r \in Utterance, NEW p \in Utterance, NEW given, Cleared(given, r)
  PROVE  Cleared(given \o p, r \o p)
<1>1. CloseTag \in Utterance /\ CloseTag # <<>>
  BY TextsAre, StreamAssumption
<1>2. PICK a \in Utterance : a = After(r, CloseTag)
  BY <1>1, AfterOnce DEF Cleared
<1>3. Has(r \o p, CloseTag) /\ After(r \o p, CloseTag) = a \o p
  BY <1>1, <1>2, AfterOnce DEF Cleared
<1>4. CASE given = a
  BY <1>3, <1>4 DEF Cleared
<1>5. CASE BreaksLine(a) /\ given = From(a, 2)
  <2>1. Len(a) >= 1 /\ a[1] = Newline /\ Len(a) \in Nat /\ Len(p) \in Nat
    BY <1>5 DEF Utterance, BreaksLine
  <2>2. From(a \o p, 2) = From(a, 2) \o p
    BY <2>1, FromOnce
  <2>3. a \o p \in Utterance /\ Len(a \o p) >= 1 /\ (a \o p)[1] = Newline
    BY <2>1, JoinFacts
  <2>4. BreaksLine(a \o p)
    BY <2>3 DEF BreaksLine, Utterance
  <2> QED BY <1>3, <1>5, <2>2, <2>4 DEF Cleared
<1> QED BY <1>2, <1>4, <1>5 DEF Cleared

\* What is made of a text inside of the block.
LEMMA ConsumeFacts ==
  ASSUME NEW b \in Utterance
  PROVE  /\ ~Has(b, CloseTag) =>
              /\ ConsumeInside(b).state \in {"inside", "panic"}
              /\ ConsumeInside(b).buffer = PartialSuffix(b, CloseTag)
              /\ ConsumeInside(b).out = <<>>
         /\ Has(b, CloseTag) =>
              /\ ConsumeInside(b).state = "pass" /\ ConsumeInside(b).buffer = <<>>
              /\ Cleared(ConsumeInside(b).out, b)
              /\ ConsumeInside(b).out \in Utterance
<1>1. CloseTag \in Utterance /\ CloseTag # <<>>
  BY TextsAre, StreamAssumption
<1>2. ASSUME ~Has(b, CloseTag)
      PROVE  /\ ConsumeInside(b).state \in {"inside", "panic"}
             /\ ConsumeInside(b).buffer = PartialSuffix(b, CloseTag)
             /\ ConsumeInside(b).out = <<>>
  BY <1>2 DEF ConsumeInside, Withheld
<1>3. ASSUME Has(b, CloseTag)
      PROVE  /\ ConsumeInside(b).state = "pass" /\ ConsumeInside(b).buffer = <<>>
             /\ Cleared(ConsumeInside(b).out, b)
             /\ ConsumeInside(b).out \in Utterance
  <2>1. PICK a \in Utterance : a = After(b, CloseTag)
    BY <1>1, <1>3, AfterOnce
  <2>2. /\ ConsumeInside(b).state = "pass" /\ ConsumeInside(b).buffer = <<>>
        /\ ConsumeInside(b).out = IF BreaksLine(a) THEN Tail(a) ELSE a
    BY <1>3, <2>1 DEF ConsumeInside, Passes
  <2>3. BreaksLine(a) => Tail(a) = From(a, 2) /\ Tail(a) \in Utterance
    <3>1. SUFFICES ASSUME BreaksLine(a)
                   PROVE  Tail(a) = From(a, 2) /\ Tail(a) \in Utterance
      OBVIOUS
    <3>2. Len(a) >= 1 /\ Len(a) \in Nat
      BY <3>1 DEF Utterance, BreaksLine
    <3>3. /\ From(a, 2) \in Utterance /\ Len(From(a, 2)) = Len(a) - 1
          /\ \A k \in 1..(Len(a) - 1) : From(a, 2)[k] = a[k + 1]
      <4>1. PICK h \in 1..(Len(a) + 1) : h = 2
        BY <3>2
      <4>2. /\ From(a, h) \in Utterance /\ Len(From(a, h)) = Len(a) - h + 1
            /\ \A k \in 1..(Len(a) - h + 1) : From(a, h)[k] = a[h + k - 1]
        BY FromFacts
      <4>3. \A k \in 1..(Len(a) - h + 1) : h + k - 1 = k + 1
        BY <4>1
      <4> QED BY <3>2, <4>1, <4>2, <4>3
    <3>4. /\ Tail(a) \in Utterance /\ Len(Tail(a)) = Len(a) - 1
          /\ \A k \in 1..(Len(a) - 1) : Tail(a)[k] = a[k + 1]
      BY <3>2 DEF Utterance
    <3> QED BY <3>3, <3>4, SameTexts
  <2> QED BY <1>3, <2>1, <2>2, <2>3 DEF Cleared
<1> QED BY <1>2, <1>3

LEMMA StripInit == GInit => StripInv
<1> SUFFICES ASSUME GInit PROVE StripInv
  OBVIOUS
<1>1. /\ spoken = <<>> /\ shown = <<>> /\ buffer = <<>>
      /\ strips \in BOOLEAN /\ strip = (IF strips THEN "deciding" ELSE "pass")
  BY DEF GInit
<1>5. <<>> \in Utterance
  BY DEF Utterance
<1>2. OpenTag \in Utterance /\ Len(OpenTag) \in Nat \ {0}
  BY TextsAre, StreamAssumption DEF Utterance
<1>3. TrimStart(<<>>) = <<>>
  <2>1. PICK h \in 1..1 : TrimStart(<<>>) = From(<<>>, h)
    BY <1>5, TrimFacts
  <2> QED BY <2>1 DEF From
<1>4. MayOpen(<<>>) /\ ~Opens(<<>>)
  BY <1>2, <1>3, <1>5, PrefixFacts DEF MayOpen, Opens
<1> QED BY <1>1, <1>4, <1>5 DEF StripInv

LEMMA TokenKeeps ==
  ASSUME StripInv, NEW piece \in Pieces, NEW breaks \in BOOLEAN, NEW fails \in BOOLEAN,
         Token(piece, breaks, fails)
  PROVE  StripInv'
<1> DEFINE whole == spoken \o piece
           pushed == PushPiece(piece)
<1>1. /\ piece \in Utterance /\ CloseTag \in Utterance /\ CloseTag # <<>>
      /\ OpenTag \in Utterance /\ <<>> \in Utterance
  BY TextsAre, StreamAssumption DEF Utterance
<1>2. /\ spoken \in Utterance /\ shown \in Utterance /\ buffer \in Utterance
      /\ whole \in Utterance /\ buffer \o piece \in Utterance /\ shown \o piece \in Utterance
  BY <1>1, JoinFacts DEF StripInv
<1>3. /\ gen = "sample" /\ strip' = pushed.state /\ buffer' = pushed.buffer
      /\ shown' = shown \o pushed.out /\ spoken' = whole /\ strips' = strips
      /\ strip' = "panic" => gen' = "panic"
  BY DEF Token
<1>4. strip \in {"deciding", "inside", "pass"}
  BY <1>3 DEF StripInv
<1>5. \A t \in Utterance : t \o <<>> = t /\ <<>> \o t = t
  BY DEF Utterance
<1>6. CASE strip = "pass"
  <2>1. pushed = [state |-> "pass", buffer |-> <<>>, out |-> piece]
    BY <1>6 DEF PushPiece, Passes
  <2>2. strip' = "pass" /\ buffer' = <<>> /\ shown' = shown \o piece
    BY <1>3, <2>1
  <2>3. CASE ~strips
    BY <1>1, <1>2, <1>3, <2>2, <2>3 DEF StripInv
  <2>4. CASE strips /\ ~MayOpen(spoken) /\ ~Opens(spoken) /\ shown = spoken
    BY <1>1, <1>2, <1>3, <2>2, <2>4, OpensOnce DEF StripInv
  <2>5. CASE strips /\ Opens(spoken) /\ Cleared(shown, Rest(spoken))
    <3>1. Opens(whole) /\ Rest(whole) = Rest(spoken) \o piece /\ Rest(spoken) \in Utterance
      BY <1>1, <1>2, <2>5, OpensOnce
    <3>2. Cleared(shown \o piece, Rest(spoken) \o piece)
      BY <1>1, <2>5, <3>1, ClearedOnce
    <3> QED BY <1>1, <1>2, <1>3, <2>2, <2>5, <3>1, <3>2 DEF StripInv
  <2> QED BY <1>6, <2>3, <2>4, <2>5 DEF StripInv
<1>7. CASE strip = "deciding"
  <2>1. strips /\ buffer = spoken /\ shown = <<>>
    BY <1>7 DEF StripInv
  <2>2. pushed = Decide(whole)
    BY <1>7, <2>1 DEF PushPiece
  <2>3. CASE Opens(whole)
    <3>1. pushed = ConsumeInside(Rest(whole))
      BY <2>2, <2>3 DEF Decide, Opens, Rest
    <3>2. Rest(whole) \in Utterance
      BY <1>1, <1>2, <2>3, OpensOnce
    <3>3. CASE ~Has(Rest(whole), CloseTag)
      <4>1. /\ strip' \in {"inside", "panic"} /\ buffer' = PartialSuffix(Rest(whole), CloseTag)
            /\ shown' = <<>>
        <5>1. /\ pushed.state \in {"inside", "panic"} /\ pushed.out = <<>>
              /\ pushed.buffer = PartialSuffix(Rest(whole), CloseTag)
          BY <3>1, <3>2, <3>3, ConsumeFacts
        <5>2. shown \o pushed.out = <<>>
          BY <1>1, <1>5, <2>1, <5>1
        <5> QED BY <1>3, <5>1, <5>2
      <4>2. Tight(buffer', Rest(whole), CloseTag) /\ buffer' \in Utterance
        <5>1. Tight(PartialSuffix(Rest(whole), CloseTag), Rest(whole), CloseTag)
          BY <1>1, <3>2, SuffixFacts
        <5>2. PartialSuffix(Rest(whole), CloseTag) \in Utterance
          BY <3>2, <5>1, FromFacts DEF Tight
        <5> QED BY <4>1, <5>1, <5>2
      <4> QED BY <1>1, <1>2, <1>3, <2>1, <2>3, <3>3, <4>1, <4>2 DEF StripInv
    <3>4. CASE Has(Rest(whole), CloseTag)
      <4>1. /\ strip' = "pass" /\ buffer' = <<>> /\ Cleared(pushed.out, Rest(whole))
            /\ pushed.out \in Utterance
        BY <1>3, <3>1, <3>2, <3>4, ConsumeFacts
      <4>2. shown' = pushed.out
        BY <1>3, <1>5, <2>1, <4>1
      <4> QED BY <1>1, <1>2, <1>3, <2>1, <2>3, <4>1, <4>2 DEF StripInv
    <3> QED BY <3>3, <3>4
  <2>4. CASE ~Opens(whole) /\ MayOpen(whole)
    <3>1. pushed = [state |-> "deciding", buffer |-> whole, out |-> <<>>]
      BY <2>2, <2>4 DEF Decide, Opens, MayOpen, Withheld
    <3>2. strip' = "deciding" /\ buffer' = whole /\ shown' = <<>>
      BY <1>1, <1>3, <1>5, <2>1, <3>1
    <3> QED BY <1>1, <1>2, <1>3, <2>1, <2>4, <3>2 DEF StripInv
  <2>5. CASE ~Opens(whole) /\ ~MayOpen(whole)
    <3>1. pushed = [state |-> "pass", buffer |-> <<>>, out |-> whole]
      BY <2>2, <2>5 DEF Decide, Opens, MayOpen, Passes
    <3>2. strip' = "pass" /\ buffer' = <<>> /\ shown' = whole
      BY <1>2, <1>3, <1>5, <2>1, <3>1
    <3> QED BY <1>1, <1>2, <1>3, <2>1, <2>5, <3>2 DEF StripInv
  <2> QED BY <2>3, <2>4, <2>5
<1>8. CASE strip = "inside"
  <2>1. /\ strips /\ shown = <<>> /\ Opens(spoken) /\ ~Has(Rest(spoken), CloseTag)
        /\ Tight(buffer, Rest(spoken), CloseTag)
    BY <1>8 DEF StripInv
  <2>2. pushed = ConsumeInside(buffer \o piece)
    BY <1>8 DEF PushPiece
  <2>3. /\ Opens(whole) /\ Rest(whole) = Rest(spoken) \o piece /\ Rest(spoken) \in Utterance
        /\ Rest(whole) \in Utterance
    BY <1>1, <1>2, <2>1, OpensOnce, JoinFacts
  <2>4. /\ Has(Rest(whole), CloseTag) <=> Has(buffer \o piece, CloseTag)
        /\ Has(Rest(whole), CloseTag) =>
             After(Rest(whole), CloseTag) = After(buffer \o piece, CloseTag)
        /\ Tight(PartialSuffix(buffer \o piece, CloseTag), Rest(whole), CloseTag)
    BY <1>1, <2>1, <2>3, TightFinds
  <2>5. CASE ~Has(Rest(whole), CloseTag)
    <3>1. /\ strip' \in {"inside", "panic"} /\ shown' = <<>>
          /\ buffer' = PartialSuffix(buffer \o piece, CloseTag)
      <4>1. /\ pushed.state \in {"inside", "panic"} /\ pushed.out = <<>>
            /\ pushed.buffer = PartialSuffix(buffer \o piece, CloseTag)
        BY <1>2, <2>2, <2>4, <2>5, ConsumeFacts
      <4>2. shown \o pushed.out = <<>>
        BY <1>1, <1>5, <2>1, <4>1
      <4> QED BY <1>3, <4>1, <4>2
    <3>2. buffer' \in Utterance
      BY <2>3, <2>4, <3>1, FromFacts DEF Tight
    <3> QED BY <1>1, <1>2, <1>3, <2>1, <2>3, <2>4, <2>5, <3>1, <3>2 DEF StripInv
  <2>6. CASE Has(Rest(whole), CloseTag)
    <3>1. /\ strip' = "pass" /\ buffer' = <<>> /\ Cleared(pushed.out, buffer \o piece)
          /\ pushed.out \in Utterance
      BY <1>2, <1>3, <2>2, <2>4, <2>6, ConsumeFacts
    <3>2. Cleared(pushed.out, Rest(whole)) /\ shown' = pushed.out
      BY <1>3, <1>5, <2>1, <2>4, <2>6, <3>1 DEF Cleared
    <3> QED BY <1>1, <1>2, <1>3, <2>1, <2>3, <3>1, <3>2 DEF StripInv
  <2> QED BY <2>5, <2>6
<1> QED BY <1>4, <1>6, <1>7, <1>8

LEMMA StripStep == StripInv /\ [GNext]_genvars => StripInv'
<1> SUFFICES ASSUME StripInv, [GNext]_genvars PROVE StripInv'
  OBVIOUS
<1>1. ASSUME NEW piece \in Pieces, NEW breaks \in BOOLEAN, NEW fails \in BOOLEAN,
             Token(piece, breaks, fails)
      PROVE  StripInv'
  BY <1>1, TokenKeeps
<1>2. ASSUME UNCHANGED <<strips, strip, buffer, generated, spoken, shown>>,
             gen = "panic" => gen' = "panic"
      PROVE  StripInv'
  BY <1>2 DEF StripInv
<1>3. ASSUME NEW fails \in BOOLEAN, OpenSession(fails) \/ Prompt(fails) PROVE StripInv'
  BY <1>2, <1>3 DEF OpenSession, Prompt
<1>4. CASE EndOfTurn
  BY <1>2, <1>4 DEF EndOfTurn
<1>5. CASE UNCHANGED genvars
  BY <1>2, <1>5 DEF genvars
<1> QED BY <1>1, <1>3, <1>4, <1>5 DEF GNext

\* Whatever the tags, the white space and the tokens that cut them, the sink is
\* given what the turn would be if it were stripped whole, until the stripper fails.
THEOREM TurnsAreVisible == GSpec => []OnlyVisible
<1>1. ASSUME StripInv PROVE OnlyVisible
  <2>1. TrimStart(spoken) \in Utterance /\ spoken \in Utterance
    BY <1>1, OpensOnce DEF StripInv
  <2>2. MayOpen(spoken) /\ Opens(spoken) <=> TrimStart(spoken) = OpenTag
    BY <2>1, TextsAre, PrefixBoth DEF MayOpen, Opens
  <2>3. /\ ~strips => OnlyVisible
        /\ strips /\ MayOpen(spoken) /\ ~Opens(spoken) => (OnlyVisible <=> shown = <<>>)
        /\ strips /\ ~Opens(spoken) /\ ~MayOpen(spoken) => (OnlyVisible <=> shown = spoken)
        /\ strips /\ Opens(spoken) =>
             /\ ~Has(Rest(spoken), CloseTag) => (OnlyVisible <=> shown = <<>>)
             /\ Cleared(shown, Rest(spoken)) => OnlyVisible
    BY <1>1, <2>2 DEF StripInv, OnlyVisible, Stripped, Rest, Opens, MayOpen, Cleared
  <2> QED BY <1>1, <2>3 DEF StripInv
<1> QED BY <1>1, StripInit, StripStep, PTL DEF GSpec

-----------------------------------------------------------------------------
(* Transcripts *)

Message == [chat : Shelf, role : {"user", "assistant"},
        at : [local : Int, offset : Int], cites : Seq(Nat)]
Line == [line : {"date", "user", "assistant", "footnote"}, of : Int]
IsDate(x) == x.line = "date"
IsTurn(x) == x.line \in {"user", "assistant"}
Day(k) == DateOf(notes[k].at)
FootnotesOf(p) == Footnotes(notes[export[p].of].cites)

Noted ==
  /\ instant \in Int /\ zone \in Int /\ notes \in Seq(Message) /\ setBack \in BOOLEAN
  /\ ~setBack => \A j \in DOMAIN notes :
                   /\ ~Earlier(Stamp, notes[j].at)
                   /\ \A k \in DOMAIN notes : j < k => ~Earlier(notes[k].at, notes[j].at)

InOrderRead ==
  /\ reading \in Seq(DOMAIN notes) /\ reached \in 1..(Len(reading) + 1)
  /\ \A j, k \in DOMAIN reading : j < k => Precedes(reading[j], reading[k])

\* The lines so far: the days rise, and the last is that of the last turn; each turn
\* has its day's header before it, with no other between, and its footnotes behind it.
Logged ==
  /\ export \in Seq(Line) /\ (reached = 1 => export = <<>>)
  /\ \A p, q \in DOMAIN export :
       IsDate(export[p]) /\ IsDate(export[q]) /\ p < q => export[p].of < export[q].of
  /\ \A p \in DOMAIN export : IsTurn(export[p]) =>
       /\ \E k \in 1..(reached - 1) : export[p].of = reading[k]
       /\ \E j \in 1..(p - 1) :
            /\ IsDate(export[j]) /\ export[j].of = Day(export[p].of)
            /\ \A q \in (j + 1)..p : ~IsDate(export[q])
       /\ Len(FootnotesOf(p)) <= Len(export) - p
       /\ \A k \in 1..Len(FootnotesOf(p)) : export[p + k] = FootnotesOf(p)[k]
  /\ \A p, q \in DOMAIN export : IsTurn(export[p]) /\ IsTurn(export[q]) /\ p < q =>
       \E j \in 1..(reached - 1), k \in 1..(reached - 1) :
         j < k /\ export[p].of = reading[j] /\ export[q].of = reading[k]
  /\ reached > 1 => \E j \in DOMAIN export :
       /\ IsDate(export[j]) /\ export[j].of = Day(reading[reached - 1])
       /\ \A q \in DOMAIN export : q > j => ~IsDate(export[q])
BookInv == Noted /\ (export # Unread => InOrderRead /\ Logged)

LEMMA DaysRise ==
  ASSUME NEW x \in Int, NEW y \in Int, x <= y
  PROVE  x \div DayLength \in Int /\ x \div DayLength <= y \div DayLength
<1>1. DayLength \in Nat \ {0}
  BY TranscriptAssumption
<1> QED BY <1>1

\* A stamp is before another or not: a strict order but for equal stamps.
StampType == [local : Int, offset : Int]
LEMMA EarlierOrders ==
  /\ \A s \in StampType : ~Earlier(s, s)
  /\ \A s, t \in StampType : Earlier(s, t) => ~Earlier(t, s) /\ s.local <= t.local
  /\ \A s, t, u \in StampType : Earlier(s, t) /\ Earlier(t, u) => Earlier(s, u)
  /\ \A s, t, u \in StampType : Earlier(s, t) /\ ~Earlier(u, t) => Earlier(s, u)
  /\ \A s, t, u \in StampType : ~Earlier(t, s) /\ Earlier(t, u) => Earlier(s, u)
  /\ \A s, t \in StampType : ~Earlier(t, s) => s.local <= t.local
BY DEF StampType, Earlier

LEMMA RowsAre ==
  ASSUME Noted
  PROVE  /\ DOMAIN notes = 1..Len(notes) /\ Len(notes) \in Nat
         /\ \A k \in DOMAIN notes : /\ notes[k] \in Message /\ notes[k].at \in StampType
                                    /\ notes[k].cites \in Seq(Nat)
<1>1. notes \in Seq(Message)
  BY DEF Noted
<1>2. \A k \in DOMAIN notes : notes[k] \in Message
  BY <1>1
<1>3. \A row \in Message : row.at \in StampType /\ row.cites \in Seq(Nat)
  BY DEF Message, StampType
<1> QED BY <1>1, <1>2, <1>3

LEMMA NotedStep == ASSUME Noted, [BookNext]_bookvars PROVE Noted'
<1>1. TranscriptAssumption
  BY TranscriptAssumption
<1>2. ASSUME NEW chat \in Shelf, NEW role \in {"user", "assistant"},
             NEW cites \in {<<>>} \cup Cites, Note(chat, role, cites)
      PROVE  Noted'
  <2>1. PICK row \in Message : /\ notes' = Append(notes, row) /\ row.at = Stamp
                           /\ UNCHANGED <<instant, zone, setBack>>
    <3>3. cites \in Seq(Nat)
      <4>1. <<>> \in Seq(Nat) /\ Cites \subseteq Seq(Nat)
        BY TranscriptAssumption
      <4> QED BY <4>1
    <3>4. Stamp \in [local : Int, offset : Int]
      BY DEF Noted, Stamp
    <3>1. Stamp \in [local : Int, offset : Int] /\ cites \in Seq(Nat)
      BY <3>3, <3>4
    <3>2. [chat |-> chat, role |-> role, at |-> Stamp, cites |-> cites] \in Message
      BY <3>1 DEF Message
    <3> QED BY <1>2, <3>2 DEF Note
  <2>2. /\ notes' \in Seq(Message) /\ DOMAIN notes' = 1..(Len(notes) + 1) /\ Len(notes) \in Nat
        /\ DOMAIN notes = 1..Len(notes) /\ notes'[Len(notes) + 1] = row
        /\ \A j \in 1..Len(notes) : notes'[j] = notes[j]
    BY <2>1 DEF Noted
  <2>3. Stamp' = Stamp
    BY <2>1 DEF Stamp
  <2>4. ASSUME ~setBack', NEW j \in DOMAIN notes' PROVE ~Earlier(Stamp', notes'[j].at)
    <3>1. CASE j \in DOMAIN notes
      BY <2>1, <2>2, <2>3, <2>4, <3>1 DEF Noted
    <3>2. CASE j = Len(notes) + 1
      <4>1. Stamp \in StampType
        BY DEF Noted, Stamp, StampType
      <4>2. notes'[j].at = Stamp
        BY <2>1, <2>2, <3>2
      <4> QED BY <2>3, <4>1, <4>2, EarlierOrders
    <3> QED BY <2>2, <2>4, <3>1, <3>2
  <2>5. ASSUME ~setBack', NEW j \in DOMAIN notes', NEW k \in DOMAIN notes', j < k
        PROVE  ~Earlier(notes'[k].at, notes'[j].at)
    <3>1. j \in DOMAIN notes
      BY <2>2, <2>5
    <3>2. CASE k \in DOMAIN notes
      BY <2>1, <2>2, <2>5, <3>1, <3>2 DEF Noted
    <3>3. CASE k = Len(notes) + 1
      <4>1. notes'[k].at = Stamp /\ notes'[j] = notes[j]
        BY <2>1, <2>2, <3>1, <3>3
      <4> QED BY <2>1, <2>5, <3>1, <4>1 DEF Noted
    <3> QED BY <2>2, <2>5, <3>2, <3>3
  <2> QED BY <2>1, <2>2, <2>4, <2>5 DEF Noted
<1>3. ASSUME NEW j \in instant..(instant + 1), NEW z \in Zones, Clock(j, z) PROVE Noted'
  <2>1. /\ instant' = j /\ zone' = z /\ notes' = notes /\ j \in Int /\ z \in Int
        /\ setBack' \in BOOLEAN
        /\ ~setBack' => ~setBack /\ (instant + zone < j + z \/ (j + z = instant + zone /\ z = zone))
    <3>1. /\ instant' = j /\ zone' = z /\ notes' = notes
          /\ setBack' = (\/ setBack \/ j + z < instant + zone
                        \/ (j + z = instant + zone /\ z # zone))
      BY <1>3 DEF Clock
    <3>2. instant \in Int /\ zone \in Int /\ setBack \in BOOLEAN
      BY DEF Noted
    <3>3. j \in Int /\ z \in Int
      BY <3>2, TranscriptAssumption
    <3>4. ~(j + z < instant + zone) => instant + zone < j + z \/ j + z = instant + zone
      BY <3>2, <3>3
    <3>5. ~setBack' => ~setBack /\ ~(j + z < instant + zone)
                       /\ ~(j + z = instant + zone /\ z # zone)
      BY <3>1
    <3> QED BY <3>1, <3>3, <3>4, <3>5
  <2>2. /\ Stamp = [local |-> instant + zone, offset |-> zone]
        /\ Stamp' = [local |-> j + z, offset |-> z]
        /\ Stamp \in StampType /\ Stamp' \in StampType
    BY <2>1 DEF Stamp, StampType, Noted
  <2>3. ASSUME ~setBack', NEW k \in DOMAIN notes PROVE ~Earlier(Stamp', notes[k].at)
    <3>1. notes[k].at \in StampType /\ ~Earlier(Stamp, notes[k].at)
      BY <2>1, <2>3, RowsAre DEF Noted
    <3>2. Stamp' = Stamp \/ Earlier(Stamp, Stamp')
      BY <2>1, <2>2, <2>3 DEF Earlier
    <3> QED BY <2>2, <3>1, <3>2, EarlierOrders
  <2> QED BY <2>1, <2>3 DEF Noted
<1>4. ASSUME UNCHANGED <<instant, zone, notes, setBack>> PROVE Noted'
  BY <1>4 DEF Noted, Stamp
<1>5. ASSUME NEW chat \in Shelf, Export(chat) PROVE Noted'
  BY <1>4, <1>5 DEF Export
<1>6. CASE ExportTurn
  BY <1>4, <1>6 DEF ExportTurn
<1>7. CASE UNCHANGED bookvars
  BY <1>4, <1>7 DEF bookvars
<1> QED BY <1>2, <1>3, <1>5, <1>6, <1>7 DEF BookNext

\* The messages of a chat in order.
ReadBefore(S) == {s \in S \X S : Precedes(s[1], s[2])}
LEMMA MessagesRead ==
  ASSUME Noted, NEW chat
  PROVE  /\ Messages(chat) \in Seq(DOMAIN notes)
         /\ \A j, k \in DOMAIN Messages(chat) :
              j < k => Precedes(Messages(chat)[j], Messages(chat)[k])
<1> DEFINE S == {k \in DOMAIN notes : notes[k].chat = chat}
<1> DEFINE q == Messages(chat)
<1>1. IsFiniteSet(S) /\ S \subseteq DOMAIN notes /\ \A k \in S : k \in Nat
  <2>1. IsFiniteSet(1..Len(notes)) /\ DOMAIN notes = 1..Len(notes)
    BY FS_Interval DEF Noted
  <2>2. S \in SUBSET (1..Len(notes))
    BY <2>1
  <2> HIDE DEF S
  <2>3. IsFiniteSet(S)
    BY <2>1, <2>2, FS_Subset
  <2> QED BY <2>1, <2>2, <2>3
<1>2. \A j, k \in S : <<j, k>> \in ReadBefore(S) <=> Precedes(j, k)
  BY DEF ReadBefore
<1>3. Orders(ReadBefore(S), S)
  <2>1. \A k \in S : notes[k].at \in StampType
    BY RowsAre
  <2>2. \A j \in S : ~Precedes(j, j)
    BY <1>1, <2>1, EarlierOrders DEF Precedes
  <2>3. \A j, k, m \in S : Precedes(j, k) /\ Precedes(k, m) => Precedes(j, m)
    <3>1. SUFFICES ASSUME NEW j \in S, NEW k \in S, NEW m \in S, Precedes(j, k), Precedes(k, m)
                   PROVE  Precedes(j, m)
      OBVIOUS
    <3>2. PICK a \in StampType, b \in StampType, e \in StampType :
            a = notes[j].at /\ b = notes[k].at /\ e = notes[m].at
      BY <2>1
    <3>3. /\ Earlier(a, b) \/ (~Earlier(b, a) /\ j < k)
          /\ Earlier(b, e) \/ (~Earlier(e, b) /\ k < m)
      BY <3>1, <3>2 DEF Precedes
    <3>4. Earlier(a, e) \/ (~Earlier(e, a) /\ j < m)
      <4>1. CASE Earlier(a, b) \/ Earlier(b, e)
        BY <3>3, <4>1, EarlierOrders
      <4>2. CASE ~Earlier(b, a) /\ ~Earlier(e, b) /\ j < k /\ k < m
        <5>1. ~Earlier(e, a)
          BY <4>2, EarlierOrders
        <5>2. j < m
          BY <1>1, <4>2
        <5> QED BY <5>1, <5>2
      <4> QED BY <3>3, <4>1, <4>2
    <3> QED BY <3>2, <3>4 DEF Precedes
  <2>4. \A j, k \in S : j = k \/ Precedes(j, k) \/ Precedes(k, j)
    BY <1>1, <2>1, EarlierOrders DEF Precedes
  <2> HIDE DEF S
  <2> QED BY <1>2, <2>2, <2>3, <2>4 DEF Orders
<1>4. \A k \in S : Lower(S, ReadBefore(S), k) = {j \in S : Precedes(j, k)}
  BY <1>2 DEF Lower
<1>5. q = [m \in 1..Cardinality(S) |->
             CHOOSE x \in S : Cardinality({y \in S : Precedes(y, x)}) = m - 1]
  BY DEF Messages, Ordered
<1> HIDE DEF q
<1>6. q = [m \in 1..Cardinality(S) |-> q[m]]
  <2> DEFINE e(m) == CHOOSE x \in S : Cardinality({y \in S : Precedes(y, x)}) = m - 1
  <2>1. q = [m \in 1..Cardinality(S) |-> e(m)]
    BY <1>5
  <2> HIDE DEF e
  <2> QED BY ONLY <2>1
<1>7. \A m \in DOMAIN q : q[m] = CHOOSE x \in S : Cardinality(Lower(S, ReadBefore(S), x)) = m - 1
  <2>1. \A m \in DOMAIN q : q[m] = CHOOSE x \in S : Cardinality({y \in S : Precedes(y, x)}) = m - 1
    BY <1>5
  <2>2. \A m : (CHOOSE x \in S : Cardinality({y \in S : Precedes(y, x)}) = m - 1)
                = (CHOOSE x \in S : Cardinality(Lower(S, ReadBefore(S), x)) = m - 1)
    BY <1>4
  <2> QED BY <2>1, <2>2
<1> HIDE DEF S
<1>8. Ranked(q, S, ReadBefore(S))
  BY <1>1, <1>3, <1>6, <1>7, OrderedRanks
<1>9. q \in Seq(DOMAIN notes)
  BY <1>1, <1>8 DEF Ranked
<1>10. ASSUME NEW j \in DOMAIN q, NEW k \in DOMAIN q, j < k PROVE Precedes(q[j], q[k])
  <2>1. q[j] \in S /\ q[k] \in S /\ j \in Int /\ k \in Int
        /\ Cardinality(Lower(S, ReadBefore(S), q[j])) = j - 1
        /\ Cardinality(Lower(S, ReadBefore(S), q[k])) = k - 1
    BY <1>8 DEF Ranked
  <2>2. PICK x \in S, y \in S : x = q[j] /\ y = q[k]
    BY <2>1
  <2>3. \A a, b \in S : <<a, b>> \in ReadBefore(S) =>
          Cardinality(Lower(S, ReadBefore(S), a)) < Cardinality(Lower(S, ReadBefore(S), b))
    BY <1>1, <1>3, Ranks
  <2>4. x # y /\ ~(<<y, x>> \in ReadBefore(S))
    <3>1. Cardinality(Lower(S, ReadBefore(S), x)) < Cardinality(Lower(S, ReadBefore(S), y))
      BY <1>10, <2>1, <2>2
    <3>2. Cardinality(Lower(S, ReadBefore(S), x)) \in Int /\ Cardinality(Lower(S, ReadBefore(S), y)) \in Int
      BY <2>1, <2>2
    <3> QED BY <2>3, <3>1, <3>2
  <2>5. <<x, y>> \in ReadBefore(S)
    BY <1>3, <2>4 DEF Orders
  <2> QED BY <1>2, <2>2, <2>5
<1> QED BY <1>9, <1>10 DEF q

\* Footnotes are lines of their own.
LEMMA FootnoteLines ==
  ASSUME NEW cites \in Seq(Nat)
  PROVE  /\ Footnotes(cites) \in Seq(Line)
         /\ \A k \in 1..Len(Footnotes(cites)) : Footnotes(cites)[k].line = "footnote"
<1> DEFINE S == {j \in DOMAIN cites : cites[j] # 0}
           q == Ordered(S, <)
<1>1. IsFiniteSet(S) /\ S \in SUBSET Nat /\ S \subseteq DOMAIN cites
  <2>1. IsFiniteSet(1..Len(cites)) /\ DOMAIN cites = 1..Len(cites)
    BY FS_Interval
  <2>2. S \in SUBSET (1..Len(cites))
    BY <2>1
  <2>3. S \in SUBSET Nat /\ S \subseteq DOMAIN cites
    BY <2>1
  <2> HIDE DEF S
  <2>4. IsFiniteSet(S)
    BY <2>1, <2>2, FS_Subset
  <2> QED BY <2>3, <2>4
<1>2. q = [m \in 1..Cardinality(S) |-> CHOOSE x \in S : Cardinality({y \in S : y < x}) = m - 1]
  BY DEF Ordered
<1>3. Footnotes(cites) = [j \in DOMAIN q |-> [line |-> "footnote", of |-> cites[q[j]]]]
  BY DEF Footnotes
<1> HIDE DEF S, q
<1>4. Ranked(q, S, Less(S))
  BY <1>1, <1>2, NumbersRanked
<1>5. \A j \in DOMAIN q : cites[q[j]] \in Int
  <2>1. \A j \in DOMAIN q : q[j] \in DOMAIN cites
    BY <1>1, <1>4 DEF Ranked
  <2>2. \A j \in DOMAIN cites : cites[j] \in Int
    OBVIOUS
  <2> QED BY <2>1, <2>2
<1>6. DOMAIN q = 1..Len(q) /\ Len(q) \in Nat
  BY <1>4 DEF Ranked
<1>7. Footnotes(cites) \in [1..Len(q) -> Line]
  BY <1>3, <1>5, <1>6 DEF Line
<1>8. Footnotes(cites) \in Seq(Line) /\ Len(Footnotes(cites)) = Len(q)
  BY <1>6, <1>7
<1> QED BY <1>3, <1>6, <1>8

LEMMA BookBegins == BookInit => BookInv
<1> SUFFICES ASSUME BookInit PROVE BookInv
  OBVIOUS
<1>1. /\ instant = DayLength /\ zone \in Zones /\ notes = <<>> /\ export = Unread
      /\ setBack = FALSE
  BY DEF BookInit
<1>2. DayLength \in Int /\ zone \in Int
  BY <1>1, TranscriptAssumption
<1>3. notes \in Seq(Message) /\ DOMAIN notes = {}
  BY <1>1
<1> QED BY <1>1, <1>2, <1>3 DEF BookInv, Noted

LEMMA ExportBegins == ASSUME Noted, NEW chat, Export(chat) PROVE (InOrderRead /\ Logged)'
<1>1. /\ export' = <<>> /\ reading' = Messages(chat) /\ reached' = 1 /\ notes' = notes
  BY DEF Export
<1>2. /\ reading' \in Seq(DOMAIN notes)
      /\ \A j, k \in DOMAIN reading' : j < k => Precedes(reading'[j], reading'[k])
  BY <1>1, MessagesRead
<1>3. \A j, k : Precedes(j, k)' <=> Precedes(j, k)
  BY <1>1 DEF Precedes
<1>4. InOrderRead'
  BY <1>1, <1>2 DEF InOrderRead, Precedes
<1>5. Logged'
  BY <1>1 DEF Logged
<1> QED BY <1>4, <1>5

LEMMA LinesJoined ==
  ASSUME NEW s \in Seq(Line), NEW t \in Seq(Line)
  PROVE  /\ s \o t \in Seq(Line) /\ Len(s \o t) = Len(s) + Len(t)
         /\ \A k \in 1..Len(s) : (s \o t)[k] = s[k]
         /\ \A k \in 1..Len(t) : (s \o t)[Len(s) + k] = t[k]
OBVIOUS

\* What a message adds to the lines: its day's header if that is new, itself, and
\* its footnotes.
LEMMA TurnLines ==
  ASSUME Noted, InOrderRead, Logged, ExportTurn, NEW x, x = reading[reached],
         NEW f, f = Footnotes(notes[x].cites)
  PROVE  /\ x \in DOMAIN notes /\ reached \in DOMAIN reading /\ f \in Seq(Line)
         /\ reached' = reached + 1 /\ UNCHANGED <<notes, reading>> /\ export' \in Seq(Line)
         /\ Day(x) \in Int
         /\ \A k \in 1..Len(f) : f[k].line = "footnote"
         /\ \E h \in {0, 1} :
              /\ h = 0 => reached > 1 /\ Day(reading[reached - 1]) = Day(x)
              /\ h = 1 => reached = 1 \/ Day(reading[reached - 1]) # Day(x)
              /\ Len(export') = Len(export) + h + 1 + Len(f)
              /\ \A k \in 1..Len(export) : export'[k] = export[k]
              /\ h = 1 => export'[Len(export) + 1] = [line |-> "date", of |-> Day(x)]
              /\ IsTurn(export'[Len(export) + h + 1]) /\ export'[Len(export) + h + 1].of = x
              /\ \A k \in 1..Len(f) : export'[Len(export) + h + 1 + k] = f[k]
<1>1. /\ reached \in DOMAIN reading /\ reached \in Nat \ {0}
      /\ reached' = reached + 1 /\ UNCHANGED <<notes, reading>>
  <2>1. /\ reached <= Len(reading) /\ reached' = reached + 1
        /\ UNCHANGED <<notes, reading>>
    BY DEF ExportTurn
  <2>2. reached \in 1..(Len(reading) + 1) /\ Len(reading) \in Nat
        /\ DOMAIN reading = 1..Len(reading)
    BY DEF InOrderRead
  <2> QED BY <2>1, <2>2
<1>2. x \in DOMAIN notes
  BY <1>1 DEF InOrderRead
<1>3. /\ notes[x] \in Message /\ notes[x].at \in StampType /\ notes[x].cites \in Seq(Nat)
      /\ x \in Int
  BY <1>2, RowsAre
<1>4. f \in Seq(Line) /\ \A k \in 1..Len(f) : f[k].line = "footnote"
  BY <1>3, FootnoteLines
<1>5. Day(x) \in Int
  BY <1>3, DaysRise DEF Day, DateOf, StampType
<1>6. PICK row \in Line : /\ row = [line |-> notes[x].role, of |-> x]
                          /\ IsTurn(row) /\ row.of = x
  <2>1. notes[x].role \in {"user", "assistant"}
    BY <1>3 DEF Message
  <2>2. [line |-> notes[x].role, of |-> x] \in Line
    BY <1>3, <2>1 DEF Line
  <2> QED BY <2>1, <2>2 DEF IsTurn
<1>7. PICK head \in Seq(Line) :
        /\ head = DateHeader(reading, reached)
        /\ \/ /\ head = <<>> /\ Len(head) = 0
              /\ reached > 1 /\ Day(reading[reached - 1]) = Day(x)
           \/ /\ Len(head) = 1 /\ head[1] = [line |-> "date", of |-> Day(x)]
              /\ reached = 1 \/ Day(reading[reached - 1]) # Day(x)
  <2>1. CASE reached > 1 /\ Day(reading[reached - 1]) = Day(x)
    <3>1. DateHeader(reading, reached) = <<>>
      BY <2>1 DEF DateHeader, Day
    <3>2. <<>> \in Seq(Line)
      OBVIOUS
    <3> QED BY <2>1, <3>1, <3>2
  <2>2. CASE ~(reached > 1 /\ Day(reading[reached - 1]) = Day(x))
    <3>1. DateHeader(reading, reached) = <<[line |-> "date", of |-> Day(x)]>>
      BY <2>2 DEF DateHeader, Day
    <3>2. PICK r \in Line : r = [line |-> "date", of |-> Day(x)]
      BY <1>5 DEF Line
    <3>3. <<r>> \in Seq(Line) /\ Len(<<r>>) = 1 /\ <<r>>[1] = r
      OBVIOUS
    <3>4. reached = 1 \/ Day(reading[reached - 1]) # Day(x)
      BY <1>1, <2>2
    <3> QED BY <3>1, <3>2, <3>3, <3>4
  <2> QED BY <2>1, <2>2
<1>8. export' = export \o head \o <<row>> \o f
  <2>1. export' = export \o DateHeader(reading, reached)
                    \o <<[line |-> notes[x].role, of |-> x]>>
                    \o Footnotes(notes[x].cites)
    BY DEF ExportTurn
  <2> QED BY <1>6, <1>7, <2>1
<1>9. export \in Seq(Line)
  BY DEF Logged
<1>10. PICK e \in Seq(Line) : /\ e = export \o head /\ Len(e) = Len(export) + Len(head)
                              /\ \A k \in 1..Len(export) : e[k] = export[k]
                              /\ \A k \in 1..Len(head) : e[Len(export) + k] = head[k]
  <2>1. head \in Seq(Line)
    OBVIOUS
  <2> QED BY ONLY <1>9, <2>1, LinesJoined
<1>11. PICK t \in Seq(Line) : /\ t = e \o <<row>> /\ Len(t) = Len(e) + 1
                              /\ \A k \in 1..Len(e) : t[k] = e[k]
                              /\ t[Len(e) + 1] = row
  <2>1. <<row>> \in Seq(Line) /\ Len(<<row>>) = 1 /\ <<row>>[1] = row
    OBVIOUS
  <2>2. PICK s \in Seq(Line) : s = <<row>> /\ Len(s) = 1 /\ s[1] = row
    BY <2>1
  <2>3. /\ e \o s \in Seq(Line) /\ Len(e \o s) = Len(e) + 1
        /\ \A k \in 1..Len(e) : (e \o s)[k] = e[k]
        /\ (e \o s)[Len(e) + 1] = s[1]
    BY <2>2
  <2> QED BY <2>2, <2>3
<1>12. /\ export' = t \o f /\ export' \in Seq(Line) /\ Len(export') = Len(t) + Len(f)
       /\ \A k \in 1..Len(t) : export'[k] = t[k]
       /\ \A k \in 1..Len(f) : export'[Len(t) + k] = f[k]
  <2>1. export' = t \o f
    BY <1>8, <1>10, <1>11
  <2> QED BY <1>4, <2>1
<1>13. Len(export) \in Nat /\ Len(head) \in {0, 1} /\ Len(f) \in Nat
  BY <1>4, <1>7, <1>9
<1>14. \A k \in 1..Len(export) : export'[k] = export[k]
  <2>1. \A k \in 1..Len(export) : k \in 1..Len(e) /\ k \in 1..Len(t)
    BY <1>10, <1>11, <1>13
  <2> QED BY <1>10, <1>11, <1>12, <2>1
<1>15. Len(head) = 1 => export'[Len(export) + 1] = head[1]
  <2>1. Len(head) = 1 => /\ Len(export) + 1 \in 1..Len(e) /\ Len(export) + 1 \in 1..Len(t)
                         /\ 1 \in 1..Len(head)
    BY <1>10, <1>11, <1>13
  <2> QED BY <1>10, <1>11, <1>12, <2>1
<1>16. export'[Len(export) + Len(head) + 1] = row
  <2>1. Len(t) = Len(export) + Len(head) + 1 /\ Len(t) \in 1..Len(t) /\ Len(e) + 1 = Len(t)
    BY <1>10, <1>11, <1>13
  <2> QED BY <1>11, <1>12, <2>1
<1>17. \A k \in 1..Len(f) : export'[Len(export) + Len(head) + 1 + k] = f[k]
  <2>1. Len(t) = Len(export) + Len(head) + 1
    BY <1>10, <1>11, <1>13
  <2> QED BY <1>12, <2>1
<1>18. Len(export') = Len(export) + Len(head) + 1 + Len(f)
  BY <1>10, <1>11, <1>12, <1>13
<1>19. /\ Len(head) = 0 => reached > 1 /\ Day(reading[reached - 1]) = Day(x)
       /\ Len(head) = 1 => reached = 1 \/ Day(reading[reached - 1]) # Day(x)
       /\ Len(head) = 1 => export'[Len(export) + 1] = [line |-> "date", of |-> Day(x)]
  BY <1>7, <1>15
<1>20. PICK h \in {0, 1} : h = Len(head)
  BY <1>13
<1>21. /\ h = 0 => reached > 1 /\ Day(reading[reached - 1]) = Day(x)
       /\ h = 1 => reached = 1 \/ Day(reading[reached - 1]) # Day(x)
       /\ Len(export') = Len(export) + h + 1 + Len(f)
       /\ \A k \in 1..Len(export) : export'[k] = export[k]
       /\ h = 1 => export'[Len(export) + 1] = [line |-> "date", of |-> Day(x)]
       /\ IsTurn(export'[Len(export) + h + 1]) /\ export'[Len(export) + h + 1].of = x
       /\ \A k \in 1..Len(f) : export'[Len(export) + h + 1 + k] = f[k]
  BY <1>6, <1>14, <1>16, <1>17, <1>18, <1>19, <1>20
<1> QED BY <1>1, <1>2, <1>4, <1>5, <1>12, <1>21

LEMMA TurnLogs == ASSUME Noted, InOrderRead, Logged, ExportTurn PROVE Logged'
<1> DEFINE g == Len(export)
<1>0. PICK x, f : x = reading[reached] /\ f = Footnotes(notes[x].cites)
  OBVIOUS
<1>1. /\ x \in DOMAIN notes /\ reached \in DOMAIN reading /\ f \in Seq(Line)
      /\ reached' = reached + 1 /\ UNCHANGED <<notes, reading>> /\ export' \in Seq(Line)
      /\ Day(x) \in Int
      /\ \A k \in 1..Len(f) : f[k].line = "footnote"
  <2>1. x \in DOMAIN notes /\ reached \in DOMAIN reading /\ Day(x) \in Int
    BY <1>0, TurnLines
  <2>2. f \in Seq(Line) /\ \A k \in 1..Len(f) : f[k].line = "footnote"
    <3>1. notes[x].cites \in Seq(Nat)
      BY <2>1, RowsAre
    <3> QED BY <1>0, <3>1, FootnoteLines
  <2>3. reached' = reached + 1 /\ UNCHANGED <<notes, reading>>
    BY DEF ExportTurn
  <2>4. export' \in Seq(Line)
    BY <1>0, TurnLines
  <2> QED BY <2>1, <2>2, <2>3, <2>4
<1>2. PICK h \in {0, 1} :
        /\ h = 0 => reached > 1 /\ Day(reading[reached - 1]) = Day(x)
        /\ h = 1 => reached = 1 \/ Day(reading[reached - 1]) # Day(x)
        /\ Len(export') = g + h + 1 + Len(f)
        /\ \A k \in 1..g : export'[k] = export[k]
        /\ h = 1 => export'[g + 1] = [line |-> "date", of |-> Day(x)]
        /\ IsTurn(export'[g + h + 1]) /\ export'[g + h + 1].of = x
        /\ \A k \in 1..Len(f) : export'[g + h + 1 + k] = f[k]
  BY <1>0, TurnLines
<1>3. /\ g \in Nat /\ Len(f) \in Nat /\ DOMAIN export = 1..g /\ reached \in Nat \ {0}
      /\ DOMAIN export' = 1..(g + h + 1 + Len(f)) /\ Len(export') \in Nat
      /\ reached \in 1..Len(reading) /\ Len(reading) \in Nat
  <2>1. export \in Seq(Line) /\ reading \in Seq(DOMAIN notes)
    BY DEF Logged, InOrderRead
  <2>2. g \in Nat /\ DOMAIN export = 1..g /\ Len(f) \in Nat /\ Len(export') \in Nat
        /\ DOMAIN export' = 1..Len(export') /\ DOMAIN reading = 1..Len(reading)
        /\ Len(reading) \in Nat
    BY <1>1, <2>1
  <2> QED BY <1>1, <1>2, <2>2
<1>4. \A k : Day(k)' = Day(k)
  BY <1>1 DEF Day
\* The lines of the turn
<1>13. \A p \in DOMAIN export' :
         \/ p \in 1..g
         \/ h = 1 /\ p = g + 1
         \/ p = g + h + 1
         \/ \E k \in 1..Len(f) : p = g + h + 1 + k
  <2>1. ASSUME NEW p \in 1..(g + h + 1 + Len(f)), p > g + h + 1
        PROVE  \E k \in 1..Len(f) : p = g + h + 1 + k
    <3>1. p - (g + h + 1) \in 1..Len(f) /\ p = g + h + 1 + (p - (g + h + 1))
      BY <1>3, <2>1
    <3> QED BY <3>1
  <2>2. ASSUME NEW p \in 1..(g + h + 1 + Len(f)), ~(p > g + h + 1)
        PROVE  p \in 1..g \/ (h = 1 /\ p = g + 1) \/ p = g + h + 1
    BY <1>3, <2>2
  <2> QED BY <1>3, <2>1, <2>2
<1>14. /\ \A k \in 1..Len(f) : ~IsDate(export'[g + h + 1 + k]) /\ ~IsTurn(export'[g + h + 1 + k])
       /\ h = 1 => IsDate(export'[g + 1]) /\ ~IsTurn(export'[g + 1]) /\ export'[g + 1].of = Day(x)
       /\ ~IsDate(export'[g + h + 1])
  <2>1. \A k \in 1..Len(f) : ~IsDate(export'[g + h + 1 + k]) /\ ~IsTurn(export'[g + h + 1 + k])
    BY <1>1, <1>2 DEF IsDate, IsTurn
  <2>2. h = 1 => IsDate(export'[g + 1]) /\ ~IsTurn(export'[g + 1]) /\ export'[g + 1].of = Day(x)
    BY <1>2 DEF IsDate, IsTurn
  <2>3. ~IsDate(export'[g + h + 1])
    BY <1>2 DEF IsDate, IsTurn
  <2> QED BY <2>1, <2>2, <2>3
<1> HIDE DEF g
<1>15. \A p \in 1..g : export'[p] = export[p]
  BY <1>2
\* Which lines are new
<1>5. \A p \in DOMAIN export' : IsDate(export'[p]) =>
        (p \in DOMAIN export /\ IsDate(export[p])) \/ (h = 1 /\ p = g + 1)
  BY <1>3, <1>13, <1>14, <1>15
<1>6. \A p \in DOMAIN export' : IsTurn(export'[p]) =>
        (p \in DOMAIN export /\ IsTurn(export[p])) \/ p = g + h + 1
  BY <1>3, <1>13, <1>14, <1>15
<1>16. \A p \in DOMAIN export : p \in DOMAIN export' /\ export'[p] = export[p] /\ p \in Int /\ p < g + h + 1
  BY <1>3, <1>15
\* The days rise
<1>7. ASSUME reached > 1, NEW p \in DOMAIN export, IsDate(export[p])
      PROVE  export[p].of <= Day(reading[reached - 1]) /\ Day(reading[reached - 1]) <= Day(x)
             /\ export[p].of \in Int /\ Day(reading[reached - 1]) \in Int
  <2>1. PICK j \in DOMAIN export :
          /\ IsDate(export[j]) /\ export[j].of = Day(reading[reached - 1])
          /\ \A q \in DOMAIN export : q > j => ~IsDate(export[q])
    BY <1>7 DEF Logged
  <2>2. p \in Int /\ j \in Int /\ ~(p > j)
    BY <1>3, <1>7, <2>1
  <2>3. p < j \/ p = j
    BY <2>2
  <2>4. p < j => export[p].of < export[j].of
    BY <1>7, <2>1 DEF Logged
  <2>5. export[p].of \in Int /\ export[j].of \in Int
    <3>1. export[p] \in Line /\ export[j] \in Line
      BY <2>1 DEF Logged
    <3> QED BY <3>1 DEF Line
  <2>6. export[p].of <= Day(reading[reached - 1])
    BY <2>1, <2>3, <2>4, <2>5
  <2>7. Precedes(reading[reached - 1], x)
    <3>1. reached - 1 \in DOMAIN reading /\ reached \in DOMAIN reading /\ reached - 1 < reached
      BY <1>1, <1>3, <1>7
    <3> QED BY <1>0, <3>1 DEF InOrderRead
  <2>8. PICK y \in DOMAIN notes : y = reading[reached - 1]
    <3>1. reached - 1 \in DOMAIN reading /\ reading \in Seq(DOMAIN notes)
      BY <1>1, <1>3, <1>7 DEF InOrderRead
    <3> QED BY <3>1
  <2>9. PICK s \in StampType, u \in StampType : s = notes[y].at /\ u = notes[x].at
    BY <1>1, RowsAre
  <2>10. s.local <= u.local /\ s.local \in Int /\ u.local \in Int
    <3>1. Earlier(s, u) \/ ~Earlier(u, s)
      BY <2>7, <2>8, <2>9 DEF Precedes
    <3>2. s.local \in Int /\ u.local \in Int
      BY DEF StampType
    <3> QED BY <3>1, <3>2, EarlierOrders
  <2>11. Day(y) <= Day(x)
    BY <2>9, <2>10, DaysRise DEF Day, DateOf
  <2> QED BY <2>1, <2>5, <2>6, <2>8, <2>11
<1>8. ASSUME NEW p \in DOMAIN export', NEW q \in DOMAIN export',
             IsDate(export'[p]), IsDate(export'[q]), p < q
      PROVE  export'[p].of < export'[q].of
  <2>1. CASE q \in DOMAIN export /\ IsDate(export[q])
    <3>1. p \in DOMAIN export
      BY <1>3, <1>8, <2>1
    <3>2. export'[p] = export[p] /\ export'[q] = export[q]
      BY <1>16, <2>1, <3>1
    <3> QED BY <1>8, <2>1, <3>1, <3>2 DEF Logged
  <2>2. CASE h = 1 /\ q = g + 1
    <3>1. p \in DOMAIN export /\ IsDate(export[p]) /\ export'[p] = export[p]
      <4>1. p \in DOMAIN export
        BY <1>3, <1>8, <2>2
      <4> QED BY <1>8, <1>16, <4>1
    <3>2. reached > 1
      <4>1. reached = 1 => DOMAIN export = {}
        BY DEF Logged
      <4>2. reached # 1
        BY <3>1, <4>1
      <4> QED BY <1>3, <4>2
    <3>3. Day(reading[reached - 1]) # Day(x)
      BY <1>2, <2>2, <3>2
    <3>4. export'[q].of = Day(x)
      BY <1>14, <2>2
    <3>5. export[p].of <= Day(reading[reached - 1]) /\ Day(reading[reached - 1]) <= Day(x)
          /\ export[p].of \in Int /\ Day(reading[reached - 1]) \in Int
      BY <1>7, <3>1, <3>2
    <3> QED BY <1>1, <3>1, <3>3, <3>4, <3>5
  <2> QED BY <1>5, <1>8, <2>1, <2>2
\* The last header is the new turn's
<1>9. \E j \in 1..(g + h) :
        /\ IsDate(export'[j]) /\ export'[j].of = Day(x)
        /\ \A q \in DOMAIN export' : q > j => ~IsDate(export'[q])
  <2>1. CASE h = 1
    <3>1. g + 1 \in 1..(g + h) /\ \A q \in DOMAIN export : ~(q > g + 1)
      BY <1>3, <2>1
    <3>2. \A q \in DOMAIN export' : q > g + 1 => ~IsDate(export'[q])
      BY <1>3, <1>5, <3>1
    <3> QED BY <1>14, <2>1, <3>1, <3>2
  <2>2. CASE h = 0
    <3>1. PICK j \in DOMAIN export :
            /\ IsDate(export[j]) /\ export[j].of = Day(x)
            /\ \A q \in DOMAIN export : q > j => ~IsDate(export[q])
      BY <1>2, <2>2 DEF Logged
    <3>2. j \in 1..(g + h) /\ export'[j] = export[j]
      BY <1>3, <1>16, <2>2
    <3>3. \A q \in DOMAIN export' : q > j => ~IsDate(export'[q])
      BY <1>5, <2>2, <3>1
    <3> QED BY <3>1, <3>2, <3>3
  <2> QED BY <1>2, <2>1, <2>2
<1>17. reached - 1 \in Nat /\ reached - 1 < reached /\ reached \in 1..reached
       /\ \A k \in 1..(reached - 1) : k \in 1..reached /\ k < reached
  BY <1>3
<1>10. ASSUME NEW p \in DOMAIN export', IsTurn(export'[p]),
              NEW u, u = Footnotes(notes[export'[p].of].cites)
       PROVE  /\ \E k \in 1..reached : export'[p].of = reading[k]
              /\ \E j \in 1..(p - 1) :
                   /\ IsDate(export'[j]) /\ export'[j].of = Day(export'[p].of)
                   /\ \A q \in (j + 1)..p : ~IsDate(export'[q])
              /\ Len(u) <= Len(export') - p
              /\ \A k \in 1..Len(u) : export'[p + k] = u[k]
  <2>1. CASE p \in DOMAIN export /\ IsTurn(export[p])
    <3>1. export'[p] = export[p] /\ u = FootnotesOf(p) /\ p \in 1..g
      BY <1>3, <1>10, <1>16, <2>1 DEF FootnotesOf
    <3>2. /\ \E k \in 1..(reached - 1) : export[p].of = reading[k]
          /\ \E j \in 1..(p - 1) :
               /\ IsDate(export[j]) /\ export[j].of = Day(export[p].of)
               /\ \A q \in (j + 1)..p : ~IsDate(export[q])
          /\ Len(u) <= g - p
          /\ \A k \in 1..Len(u) : export[p + k] = u[k]
      BY <2>1, <3>1 DEF Logged, g
    <3>3. PICK j \in 1..(p - 1) :
               /\ IsDate(export[j]) /\ export[j].of = Day(export[p].of)
               /\ \A q \in (j + 1)..p : ~IsDate(export[q])
      BY <3>2
    <3>4. j \in 1..g /\ \A q \in (j + 1)..p : q \in 1..g
      BY <1>3, <3>1
    <3>5. /\ IsDate(export'[j]) /\ export'[j].of = Day(export'[p].of)
          /\ \A q \in (j + 1)..p : ~IsDate(export'[q])
      BY <1>15, <3>1, <3>3, <3>4
    <3>6. Len(u) \in Int
      <4>1. export[p].of \in DOMAIN notes
        <5>1. PICK k \in 1..(reached - 1) : export[p].of = reading[k]
          BY <3>2
        <5>2. k \in DOMAIN reading
          BY <1>1, <1>3
        <5>3. reading \in Seq(DOMAIN notes)
          BY DEF InOrderRead
        <5> QED BY <5>1, <5>2, <5>3
      <4>2. notes[export[p].of].cites \in Seq(Nat)
        BY <4>1, RowsAre
      <4>3. u \in Seq(Line)
        BY <1>10, <3>1, <4>2, FootnoteLines
      <4> QED BY <4>3
    <3>7. Len(u) <= Len(export') - p /\ \A k \in 1..Len(u) : p + k \in 1..g
      <4>1. Len(u) <= g - p
        BY <3>2
      <4>2. Len(export') = g + h + 1 + Len(f)
        BY <1>2 DEF g
      <4>3. PICK z \in Int, m \in Int, v \in Nat, e \in Int :
              z = Len(u) /\ m = g /\ v = Len(f) /\ e = Len(export')
        <5>1. Len(u) \in Int /\ g \in Int /\ Len(f) \in Nat /\ Len(export') \in Int
          BY <1>3, <3>6
        <5> QED BY ONLY <5>1, Zenon
      <4>4. z <= m - p /\ h \in Int /\ h >= 0 /\ p \in Int /\ 1 <= p /\ p <= m
            /\ e = m + h + 1 + v
        <5>1. p \in Int /\ 1 <= p /\ p <= m
          BY ONLY <3>1, <4>3
        <5>2. z <= m - p
          BY ONLY <4>1, <4>3
        <5>3. e = m + h + 1 + v
          BY ONLY <4>2, <4>3
        <5>4. h \in Int /\ h >= 0
          OBVIOUS
        <5> QED BY ONLY <5>1, <5>2, <5>3, <5>4
      <4>5. z <= e - p /\ \A k \in 1..z : p + k \in 1..m
        <5>1. z <= e - p
          BY ONLY <4>3, <4>4
        <5>2. ASSUME NEW k \in 1..z PROVE p + k \in 1..m
          BY ONLY <4>3, <4>4, <5>2
        <5> QED BY <5>1, <5>2
      <4>6. Len(u) <= Len(export') - p
        BY ONLY <4>3, <4>5
      <4>7. \A k \in 1..Len(u) : p + k \in 1..g
        BY ONLY <4>3, <4>5
      <4> QED BY <4>6, <4>7
    <3>8. \A k \in 1..Len(u) : export'[p + k] = u[k]
      BY <1>15, <3>2, <3>7
    <3>9. \E k \in 1..reached : export'[p].of = reading[k]
      BY <1>17, <3>1, <3>2
    <3> QED BY <3>5, <3>7, <3>8, <3>9
  <2>2. CASE p = g + h + 1
    <3>1. export'[p].of = x /\ u = f
      BY <1>0, <1>2, <1>10, <2>2 DEF g
    <3>2. PICK j \in 1..(g + h) :
            /\ IsDate(export'[j]) /\ export'[j].of = Day(x)
            /\ \A q \in DOMAIN export' : q > j => ~IsDate(export'[q])
      BY <1>9
    <3>3. j \in 1..(p - 1) /\ \A q \in (j + 1)..p : q \in DOMAIN export' /\ q > j
      BY <1>3, <2>2
    <3>4. Len(u) <= Len(export') - p
      <4>1. Len(export') = g + h + 1 + Len(f)
        BY <1>2 DEF g
      <4> QED BY <1>3, <2>2, <3>1, <4>1
    <3>5. \A k \in 1..Len(u) : export'[p + k] = u[k]
      BY <1>2, <2>2, <3>1 DEF g
    <3> QED BY <1>0, <1>17, <3>1, <3>2, <3>3, <3>4, <3>5
  <2> QED BY <1>6, <1>10, <2>1, <2>2
<1>11. ASSUME NEW p \in DOMAIN export', NEW q \in DOMAIN export',
              IsTurn(export'[p]), IsTurn(export'[q]), p < q
       PROVE  \E j \in 1..reached, k \in 1..reached :
                j < k /\ export'[p].of = reading[j] /\ export'[q].of = reading[k]
  <2>1. p \in DOMAIN export /\ IsTurn(export[p]) /\ export'[p] = export[p]
    <3>1. \A m \in DOMAIN export' : ~(g + h + 1 < m) \/ ~IsTurn(export'[m])
      BY <1>3, <1>6, <1>16
    <3>2. p # g + h + 1
      BY <1>11, <3>1
    <3> QED BY <1>6, <1>11, <1>16, <3>2
  <2>2. CASE q \in DOMAIN export /\ IsTurn(export[q])
    <3>1. \E j \in 1..(reached - 1), k \in 1..(reached - 1) :
            j < k /\ export[p].of = reading[j] /\ export[q].of = reading[k]
      <4>1. \A a, b \in DOMAIN export : IsTurn(export[a]) /\ IsTurn(export[b]) /\ a < b =>
              \E j \in 1..(reached - 1), k \in 1..(reached - 1) :
                j < k /\ export[a].of = reading[j] /\ export[b].of = reading[k]
        BY DEF Logged
      <4> QED BY <1>11, <2>1, <2>2, <4>1
    <3> QED BY <1>16, <1>17, <2>1, <2>2, <3>1
  <2>3. CASE q = g + h + 1
    <3>1. PICK j \in 1..(reached - 1) : export[p].of = reading[j]
      BY <2>1 DEF Logged
    <3>2. export'[q].of = reading[reached]
      BY <1>0, <1>2, <2>3 DEF g
    <3> QED BY <1>17, <2>1, <3>1, <3>2
  <2> QED BY <1>6, <1>11, <2>2, <2>3
<1>12. Day(reading[reached' - 1]) = Day(x) /\ reached' - 1 = reached /\ reached' # 1
  BY <1>0, <1>1, <1>3
<1> QED
  <2>1. \A p : FootnotesOf(p)' = Footnotes(notes[export'[p].of].cites)
    BY <1>1 DEF FootnotesOf
  <2>2. \E j \in DOMAIN export' : /\ IsDate(export'[j]) /\ export'[j].of = Day(x)
                                  /\ \A q \in DOMAIN export' : q > j => ~IsDate(export'[q])
    <3>1. 1..(g + h) \subseteq DOMAIN export'
      BY <1>3
    <3> QED BY <1>9, <3>1
  <2>3. ASSUME NEW p \in DOMAIN export', IsTurn(export'[p])
        PROVE /\ \E k \in 1..(reached' - 1) : export'[p].of = reading'[k]
              /\ \E j \in 1..(p - 1) :
                   /\ IsDate(export'[j]) /\ export'[j].of = DateOf(notes'[export'[p].of].at)
                   /\ \A q \in (j + 1)..p : ~IsDate(export'[q])
              /\ Len(Footnotes(notes'[export'[p].of].cites)) <= Len(export') - p
              /\ \A k \in 1..Len(Footnotes(notes'[export'[p].of].cites)) :
                   export'[p + k] = Footnotes(notes'[export'[p].of].cites)[k]
    <3>1. PICK u : u = Footnotes(notes[export'[p].of].cites)
      OBVIOUS
    <3> QED BY <1>1, <1>10, <1>12, <2>3, <3>1 DEF Day
  <2>4. \A p, q \in DOMAIN export' : IsTurn(export'[p]) /\ IsTurn(export'[q]) /\ p < q =>
          \E j \in 1..(reached' - 1), k \in 1..(reached' - 1) :
            j < k /\ export'[p].of = reading'[j] /\ export'[q].of = reading'[k]
    BY <1>1, <1>11, <1>12
  <2>5. \E j \in DOMAIN export' :
          /\ IsDate(export'[j]) /\ export'[j].of = DateOf(notes'[reading'[reached' - 1]].at)
          /\ \A q \in DOMAIN export' : q > j => ~IsDate(export'[q])
    BY <1>1, <1>12, <2>2 DEF Day
  <2> QED BY <1>1, <1>8, <1>12, <2>3, <2>4, <2>5 DEF Logged, FootnotesOf, Day

LEMMA BookStep == ASSUME BookInv, [BookNext]_bookvars PROVE BookInv'
<1>1. Noted /\ Noted'
  BY NotedStep DEF BookInv
<1>2. ASSUME NEW chat \in Shelf, Export(chat) PROVE BookInv'
  BY <1>1, <1>2, ExportBegins DEF BookInv
<1>3. CASE ExportTurn
  <2>1. InOrderRead /\ Logged
    BY <1>3 DEF BookInv, ExportTurn
  <2>2. Logged'
    BY <1>1, <1>3, <2>1, TurnLogs
  <2>3. InOrderRead'
    <3>1. /\ reached <= Len(reading) /\ reached' = reached + 1
          /\ UNCHANGED <<notes, reading>>
      BY <1>3 DEF ExportTurn
    <3>2. reached \in 1..(Len(reading) + 1) /\ Len(reading) \in Nat
      BY <2>1 DEF InOrderRead
    <3>3. reached' \in 1..(Len(reading) + 1)
      BY <3>1, <3>2
    <3>4. \A j, k : Precedes(j, k)' = Precedes(j, k)
      BY <3>1 DEF Precedes
    <3> QED BY <2>1, <3>1, <3>3 DEF InOrderRead, Precedes
  <2> QED BY <1>1, <2>2, <2>3 DEF BookInv
<1>4. ASSUME export' = Unread PROVE BookInv'
  BY <1>1, <1>4 DEF BookInv
<1>5. ASSUME NEW chat \in Shelf, NEW role \in {"user", "assistant"},
             NEW cites \in {<<>>} \cup Cites, Note(chat, role, cites)
      PROVE  BookInv'
  BY <1>4, <1>5 DEF Note
<1>6. ASSUME NEW j \in instant..(instant + 1), NEW z \in Zones, Clock(j, z) PROVE BookInv'
  BY <1>4, <1>6 DEF Clock
<1>7. CASE UNCHANGED bookvars
  <2>1. UNCHANGED <<notes, reading, reached, export>>
    BY <1>7 DEF bookvars
  <2>2. Logged => Logged'
    BY <2>1 DEF Logged, FootnotesOf, Day
  <2>3. InOrderRead => InOrderRead'
    BY <2>1 DEF InOrderRead, Precedes
  <2> QED BY <1>1, <2>1, <2>2, <2>3 DEF BookInv
<1> QED BY <1>2, <1>3, <1>5, <1>6, <1>7 DEF BookNext

\* Whatever the clock was set to and wherever, an export heads each day once, has
\* each turn under its day and its footnotes under the turn, and while the clock has
\* not gone back it has the turns in the order in which they were said.
THEOREM ExportsReadLikeLogs == BookSpec => []ReadsLikeALog
<1>1. BookInv => ReadsLikeALog
  <2> SUFFICES ASSUME BookInv, export # Unread PROVE ReadsLikeALog
    BY DEF ReadsLikeALog
  <2> DEFINE Dates == {k \in DOMAIN export : export[k].line \in {"date"}}
             turns == {k \in DOMAIN export : export[k].line \in {"user", "assistant"}}
  <2>1. Noted /\ InOrderRead /\ Logged
    BY DEF BookInv
  <2>2. export \in Seq(Line) /\ Len(export) \in Nat /\ DOMAIN export = 1..Len(export)
    <3>1. export \in Seq(Line)
      BY <2>1 DEF Logged
    <3> QED BY <3>1
  <2>3. /\ \A k \in Dates : k \in DOMAIN export /\ IsDate(export[k]) /\ k \in Int
        /\ \A k \in DOMAIN export : IsDate(export[k]) => k \in Dates
        /\ \A k \in turns : k \in DOMAIN export /\ IsTurn(export[k]) /\ k \in Int
    BY <2>2 DEF IsDate, IsTurn
  <2> HIDE DEF Dates, turns
  <2>4. ASSUME NEW j \in Dates, NEW k \in Dates, export[j] = export[k] PROVE j = k
    <3>1. export[j].of \in Int
      <4>1. export[j] \in Line
        BY <2>2, <2>3
      <4> QED BY <4>1 DEF Line
    <3>2. ~(j < k) /\ ~(k < j)
      <4>1. j < k => export[j].of < export[k].of
        BY <2>1, <2>3 DEF Logged
      <4>2. k < j => export[k].of < export[j].of
        BY <2>1, <2>3 DEF Logged
      <4> QED BY <2>4, <3>1, <4>1, <4>2
    <3> QED BY <2>3, <3>2
  <2>5. ASSUME NEW k \in turns
        PROVE  /\ export[Max({j \in Dates : j < k})].of = DateOf(notes[export[k].of].at)
               /\ IsPrefix(Footnotes(notes[export[k].of].cites), SubSeq(export, k + 1, Len(export)))
    <3>1. /\ k \in DOMAIN export /\ k \in Int
          /\ \E j \in 1..(k - 1) :
               /\ IsDate(export[j]) /\ export[j].of = Day(export[k].of)
               /\ \A q \in (j + 1)..k : ~IsDate(export[q])
          /\ Len(FootnotesOf(k)) <= Len(export) - k
          /\ \A m \in 1..Len(FootnotesOf(k)) : export[k + m] = FootnotesOf(k)[m]
          /\ \E m \in 1..(reached - 1) : export[k].of = reading[m]
      BY <2>1, <2>3 DEF Logged
    <3>2. PICK j \in 1..(k - 1) :
            /\ IsDate(export[j]) /\ export[j].of = Day(export[k].of)
            /\ \A q \in (j + 1)..k : ~IsDate(export[q])
      BY <3>1
    <3>3. j \in Dates /\ j < k /\ j \in Int
      <4>1. j \in DOMAIN export /\ j < k /\ j \in Int
        BY <2>2, <3>1
      <4> QED BY <2>3, <3>2, <4>1
    <3>4. \A m \in Dates : m < k => m <= j
      <4>1. SUFFICES ASSUME NEW m \in Dates, m < k, ~(m <= j) PROVE FALSE
        OBVIOUS
      <4>2. m \in (j + 1)..k
        BY <2>3, <3>1, <3>3, <4>1
      <4> QED BY <2>3, <3>2, <4>2
    <3>5. Max({m \in Dates : m < k}) = j
      <4> DEFINE P == {m \in Dates : m < k}
      <4>1. j \in P /\ \A m \in P : m <= j /\ m \in Int
        BY <2>3, <3>3, <3>4
      <4> HIDE DEF P
      <4>2. \A y \in P : (\A m \in P : m <= y) => y = j
        <5>1. SUFFICES ASSUME NEW y \in P, \A m \in P : m <= y PROVE y = j
          OBVIOUS
        <5>2. j <= y /\ y <= j /\ y \in Int /\ j \in Int
          BY <4>1, <5>1
        <5> QED BY <5>2
      <4>3. Max(P) = CHOOSE y \in P : \A m \in P : m <= y
        BY DEF Max
      <4>4. (CHOOSE y \in P : \A m \in P : m <= y) = j
        BY <4>1, <4>2
      <4> QED BY <4>3, <4>4 DEF P
    <3>6. PICK u \in Seq(Line) : u = FootnotesOf(k) /\ Len(u) \in Nat /\ DOMAIN u = 1..Len(u)
      <4>1. export[k].of \in DOMAIN notes
        <5>1. PICK m \in 1..(reached - 1) : export[k].of = reading[m]
          BY <3>1
        <5>2. m \in DOMAIN reading /\ reading \in Seq(DOMAIN notes)
          BY <2>1 DEF InOrderRead
        <5> QED BY <5>1, <5>2
      <4>2. notes[export[k].of].cites \in Seq(Nat)
        BY <2>1, <4>1, RowsAre
      <4>3. FootnotesOf(k) \in Seq(Line)
        BY <4>2, FootnoteLines DEF FootnotesOf
      <4> QED BY <4>3
    <3>7. IsPrefix(u, SubSeq(export, k + 1, Len(export)))
      <4>1. PICK r \in Seq(Line) : /\ r = SubSeq(export, k + 1, Len(export))
                                   /\ Len(r) = Len(export) - k
                                   /\ \A m \in 1..Len(r) : r[m] = export[k + m]
        <5>1. k \in 1..Len(export)
          BY <2>2, <3>1
        <5>2. SubSeq(export, k + 1, Len(export)) \in Seq(Line)
          BY <2>2, <5>1
        <5>3. Len(SubSeq(export, k + 1, Len(export))) = Len(export) - k
          <6>1. PICK total \in Int : total = Len(export) /\ k \in 1..total
            <7>1. Len(export) \in Int
              BY <2>2
            <7> QED BY <5>1, <7>1
          <6>2. total - (k + 1) + 1 = total - k /\ ~(total - (k + 1) + 1 < 0)
            BY ONLY <6>1
          <6>3. Len(SubSeq(export, k + 1, total)) = IF k + 1 <= total THEN total - (k + 1) + 1 ELSE 0
            BY <2>2, <6>1
          <6> QED BY <6>1, <6>2, <6>3
        <5>4. \A m \in 1..(Len(export) - k) :
                SubSeq(export, k + 1, Len(export))[m] = export[k + m]
          BY <2>2, <5>1
        <5> QED BY <5>2, <5>3, <5>4
      <4>2. Len(u) <= Len(r) /\ Len(r) \in Nat
        <5>1. Len(u) <= Len(export) - k
          BY ONLY <3>1, <3>6
        <5>2. Len(r) \in Nat
          OBVIOUS
        <5> QED BY ONLY <4>1, <5>1, <5>2
      <4>3. \A m \in 1..Len(u) : u[m] = r[m]
        <5>1. \A m \in 1..Len(u) : m \in 1..Len(r)
          BY <3>6, <4>2
        <5> QED BY <3>1, <3>6, <4>1, <5>1
      <4>4. u = SubSeq(r, 1, Len(u))
        <5>1. SubSeq(r, 1, Len(u)) \in Seq(Line) /\ Len(SubSeq(r, 1, Len(u))) = Len(u)
          BY <3>6, <4>2
        <5>2. \A m \in 1..Len(u) : SubSeq(r, 1, Len(u))[m] = r[m]
          BY <3>6, <4>2
        <5>3. PICK v \in Seq(Line) : /\ v = SubSeq(r, 1, Len(u)) /\ Len(v) = Len(u)
                                     /\ \A m \in 1..Len(u) : v[m] = u[m]
          BY <4>3, <5>1, <5>2
        <5>4. v = u
          BY ONLY <3>6, <5>3, SeqEqual
        <5> QED BY <5>3, <5>4
      <4> QED BY <4>1, <4>2, <4>4 DEF IsPrefix
    <3> QED BY <3>2, <3>5, <3>6, <3>7 DEF FootnotesOf, Day
  <2>6. ASSUME ~setBack, NEW j \in turns, NEW k \in turns, j < k
        PROVE  export[j].of < export[k].of
    <3>1. PICK a \in 1..(reached - 1), b \in 1..(reached - 1) :
            a < b /\ export[j].of = reading[a] /\ export[k].of = reading[b]
      <4>1. j \in DOMAIN export /\ k \in DOMAIN export /\ IsTurn(export[j]) /\ IsTurn(export[k])
        BY <2>3
      <4>2. \A p, q \in DOMAIN export : IsTurn(export[p]) /\ IsTurn(export[q]) /\ p < q =>
              \E a \in 1..(reached - 1), b \in 1..(reached - 1) :
                a < b /\ export[p].of = reading[a] /\ export[q].of = reading[b]
        BY <2>1 DEF Logged
      <4> QED BY <2>6, <4>1, <4>2
    <3>2. a \in DOMAIN reading /\ b \in DOMAIN reading /\ reading \in Seq(DOMAIN notes)
      BY <2>1 DEF InOrderRead
    <3>3. PICK m \in DOMAIN notes, p \in DOMAIN notes : m = reading[a] /\ p = reading[b]
      BY <3>2
    <3>4. Precedes(m, p)
      BY <2>1, <3>1, <3>2, <3>3 DEF InOrderRead
    <3>5. p < m => ~Earlier(notes[m].at, notes[p].at)
      BY <2>1, <2>6 DEF Noted
    <3>6. m \in Int /\ p \in Int /\ notes[m].at \in StampType
      BY <2>1, RowsAre
    <3>7. Earlier(notes[m].at, notes[p].at) => m < p
      <4>1. m = p => ~Earlier(notes[m].at, notes[p].at)
        BY <3>6, EarlierOrders
      <4> QED BY <3>5, <3>6, <4>1
    <3>8. m < p
      BY <3>4, <3>7 DEF Precedes
    <3> QED BY <3>1, <3>3, <3>8
  <2> QED BY <2>4, <2>5, <2>6 DEF ReadsLikeALog, Dates, turns
<1> QED
  <2>1. BookInv /\ [BookNext]_bookvars => BookInv'
    BY BookStep
  <2> QED BY <1>1, <2>1, BookBegins, PTL DEF BookSpec
=============================================================================
