----------------------------- MODULE Documents -----------------------------
(* How kpack-core reads a source into blocks of text under their headings:
   markdown (parse.rs) from the events of pulldown-cmark, HTML and each chapter
   of an EPUB from the DOM (html.rs, epub.rs), DOCX from its body (docx.rs),
   plain text and a PDF's pages by paragraph (parse.rs, build.rs). One action
   is one element of the source; a heading, a paragraph, a table or a block of
   code is a leaf, whose events come in a row. A text is its number in the
   source, a heading its number in the chapter, and what is inside a list comes
   between its start and its end. *)
EXTENDS Integers, Sequences

CONSTANTS
  Formats,     \* subset of {"md", "html", "epub", "docx", "text"}
  Levels,      \* the levels of headings
  MaxTexts, MaxHeads, MaxDepth,  \* bounds on the source
  Beyond       \* what the source may hold: "leaps", a heading more than one
               \* level below the last; "nested", a leaf of its own in a list
ASSUME DocumentsAssumption ==
  /\ Formats \subseteq {"md", "html", "epub", "docx", "text"}
  /\ Levels \subseteq Nat \ {0}
  /\ {MaxTexts, MaxHeads, MaxDepth} \subseteq Nat
  /\ Beyond \subseteq {"leaps", "nested"}

VARIABLES
  format,   \* the source's type
  source,   \* "open" or "ended"
  stack,    \* heading_stack
  path,     \* current_path
  blocks,   \* current_blocks: their texts, in order
  depth,    \* list_depth
  target,   \* where a text goes: "none" or "list" (the leaves' own are brief)
  list,     \* the list's buffer
  sections, \* the sections cut: each text with its section's path
  heads,    \* the levels of the chapter's headings so far
  told      \* of each text, the headings read before it
dvars == <<format, source, stack, path, blocks, depth, target, list, sections, heads, told>>

DInit ==
  /\ format \in Formats /\ source = "open"
  /\ stack = <<>> /\ path = <<>> /\ blocks = <<>> /\ sections = <<>>
  /\ depth = 0 /\ target = "none" /\ list = <<>>
  /\ heads = <<>> /\ told = <<>>

\* The sections once the current one is cut: none is, if it has no block.
Cut == sections \o [k \in 1..Len(blocks) |-> [text |-> blocks[k], under |-> path]]
Top(s, k) == SubSeq(s, 1, IF k < Len(s) THEN k ELSE Len(s))

\* The element read may be here. A leaf in a list takes the list's target away
\* when it ends.
Leaf == depth > 0 => "nested" \in Beyond
NewText == Len(told) < MaxTexts /\ told' = Append(told, heads)
This == Len(told) + 1

Opened(level) == Append(Top(stack, level - 1), Len(heads) + 1)
\* Mutant: the section is not cut before the path changes.
Heading_NoCut(level) ==
  /\ source = "open" /\ format # "text" /\ Len(heads) < MaxHeads /\ Leaf
  /\ level <= Len(stack) + 1 \/ "leaps" \in Beyond
  /\ stack' = Opened(level) /\ path' = stack'
  /\ heads' = Append(heads, level) /\ target' = "none"
  /\ UNCHANGED <<format, source, sections, blocks, depth, list, told>>
Heading(level) ==
  /\ source = "open" /\ format # "text" /\ Len(heads) < MaxHeads /\ Leaf
  /\ level <= Len(stack) + 1 \/ "leaps" \in Beyond
  /\ sections' = Cut /\ blocks' = <<>>
  /\ stack' = Opened(level) /\ path' = stack'
  /\ heads' = Append(heads, level) /\ target' = "none"
  /\ UNCHANGED <<format, source, depth, list, told>>

\* A block of its own text.
Emitted == /\ source = "open" /\ NewText
           /\ blocks' = Append(blocks, This) /\ target' = "none"
           /\ UNCHANGED <<format, source, stack, path, depth, list, sections, heads>>
\* A paragraph; of HTML also a list item, or a text in no tag of its own.
Paragraph == format # "text" /\ depth = 0 /\ Emitted
\* A paragraph of plain text, or of a page of a PDF.
PageParagraph == format = "text" /\ Emitted
\* A row of a DOCX table, flattened.
Row == format = "docx" /\ Emitted
Table == format \in {"md", "html", "epub"} /\ Leaf /\ Emitted
Code == format = "md" /\ Leaf /\ Emitted

\* Markdown's lists, flattened with the lists in them into one paragraph.
ListStart ==
  /\ source = "open" /\ format = "md" /\ depth < MaxDepth
  /\ depth' = depth + 1
  /\ IF depth = 0 THEN list' = <<>> /\ target' = "list" ELSE UNCHANGED <<list, target>>
  /\ UNCHANGED <<format, source, stack, path, blocks, sections, heads, told>>
ListText ==
  /\ source = "open" /\ depth > 0 /\ NewText
  /\ list' = IF target = "list" THEN Append(list, This) ELSE list
  /\ UNCHANGED <<format, source, stack, path, blocks, depth, target, sections, heads>>
\* Mutant: the end of any list, an inner one too, closes the paragraph.
ListEnd_Any ==
  /\ source = "open" /\ depth > 0
  /\ depth' = depth - 1 /\ blocks' = blocks \o list /\ target' = "none"
  /\ list' = list
  /\ UNCHANGED <<format, source, stack, path, sections, heads, told>>
ListEnd ==
  /\ source = "open" /\ depth > 0
  /\ depth' = depth - 1
  /\ IF depth = 1 THEN blocks' = blocks \o list /\ list' = <<>> /\ target' = "none"
     ELSE UNCHANGED <<blocks, list, target>>
  /\ UNCHANGED <<format, source, stack, path, sections, heads, told>>

\* An EPUB's next chapter: a document of its own, its sections after the others'.
Chapter ==
  /\ source = "open" /\ format = "epub"
  /\ sections' = Cut /\ blocks' = <<>> /\ stack' = <<>> /\ path' = <<>> /\ heads' = <<>>
  /\ UNCHANGED <<format, source, depth, target, list, told>>

\* The end of the source.
Read ==
  /\ source = "open" /\ depth = 0
  /\ sections' = Cut /\ blocks' = <<>> /\ source' = "ended"
  /\ UNCHANGED <<format, stack, path, depth, target, list, heads, told>>

DNext ==
  \/ \E level \in Levels : Heading(level)
  \/ Paragraph \/ PageParagraph \/ Row \/ Table \/ Code
  \/ ListStart \/ ListText \/ ListEnd \/ Chapter \/ Read
DSpec == DInit /\ [][DNext]_dvars

-----------------------------------------------------------------------------
\* The state of the module.
DTypeOK ==
  /\ format \in Formats /\ source \in {"open", "ended"} /\ target \in {"none", "list"}
  /\ stack \in Seq(Nat) /\ path \in Seq(Nat) /\ blocks \in Seq(Nat) /\ list \in Seq(Nat)
  /\ depth \in Nat /\ heads \in Seq(Levels) /\ told \in Seq(Seq(Levels))
  /\ sections \in Seq([text : Nat, under : Seq(Nat)])

\* The sections hold every text of the source, once and in its order ("no
\* content is silently dropped", "in document order").
TextKept ==
  source = "ended" => /\ Len(sections) = Len(told)
                    /\ \A k \in 1..Len(sections) : sections[k].text = k

\* Of the headings read, those that no later one is beside or above.
Enclosing(levels) ==
  {j \in 1..Len(levels) : \A k \in (j + 1)..Len(levels) : levels[k] > levels[j]}
\* A text is cited under the headings it stands under in the source, outermost
\* first: its section's path is "the heading ancestry".
UnderItsHeadings ==
  \A k \in 1..Len(sections) :
    LET under == sections[k].under
        above == Enclosing(told[sections[k].text]) IN
    /\ {under[j] : j \in 1..Len(under)} = above
    /\ \A j \in 1..(Len(under) - 1) : under[j] < under[j + 1]

\* No text of a source is dropped, whatever its elements are nested in.
NothingDropped ==
  source = "ended" => \A k \in 1..Len(told) : \E j \in 1..Len(sections) : sections[j].text = k
=============================================================================
