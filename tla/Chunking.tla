------------------------------ MODULE Chunking ------------------------------
(* How kpack-core cuts one block of a document into chunks (chunk.rs): a
   paragraph into windows of whole sentences that overlap, a table into groups
   of whole rows, and whatever the embedder cannot take at once, a sentence, a
   group of rows or a block of code, into pieces, word by word and, for a word
   too long, char by char. One action is one turn of one of its loops.
   Every block is cut on its own, so a document's chunks are its blocks'. *)
EXTENDS Integers, Sequences

CONSTANTS
  Blocks,         \* the blocks to cut: [kind, n], n the items (sentences, rows)
  Text(_, _, _),  \* the words of a block's items f..t joined, with the header
                  \* of a table: the length of each word in chars
  Tokens(_),      \* Embedder.token_count of some words joined; not a sum
  Target,         \* ChunkConfig.target_tokens
  Ceiling,        \* Embedder.max_input_tokens
  Overlap         \* ChunkConfig.overlap_pct
ASSUME ChunkingAssumption ==
  /\ Target \in Nat /\ Ceiling \in Nat /\ Overlap \in Nat
  /\ \A b \in Blocks :
       /\ b.kind \in {"paragraph", "table", "code"}
       /\ b.n \in Nat
       /\ b.kind = "code" => b.n = 1
       /\ \A f \in 1..b.n, t \in 1..b.n :
            Text(b, f, t) \in Seq(Nat) /\ Tokens(Text(b, f, t)) \in Nat

VARIABLES
  block,  \* the block
  pc,     \* the loop
  i, to,  \* the items taken up: a window, a group of rows, one sentence
  back,   \* overlap_start
  w,      \* the next word to place, of the items i..to
  cur,    \* the first word of the piece begun, 0 if none is
  c, d,   \* the chars of word w taken up
  out,    \* the chunks made
  last    \* the last of them
vars == <<block, pc, i, to, back, w, cur, c, d, out, last>>

n == block.n
Items(f, t) == Text(block, f, t)
Count(f, t) == Tokens(Items(f, t))
Of(f, t, a, b) == Tokens(SubSeq(Items(f, t), a, b))
\* The window never outgrows the embedder; a table's rows are grouped up to the
\* target alone.
EffectiveTarget == IF Target <= Ceiling THEN Target ELSE Ceiling
GroupTarget == IF block.kind = "table" THEN Target ELSE EffectiveTarget

\* A chunk: items from..to, or some words of them, or some chars of one word.
Chunk(f, t, words, chars, tokens) ==
  [from |-> f, to |-> t, words |-> words, chars |-> chars, tokens |-> tokens]
NoChunk == Chunk(0, 0, {}, {}, 0)
Emit(chunk) == out' = out \cup {chunk} /\ last' = chunk

Init ==
  /\ block \in Blocks /\ pc = (IF block.n = 0 THEN "done" ELSE "walk")
  /\ i = 1 /\ to = 1 /\ back = 1 /\ w = 1 /\ cur = 0 /\ c = 1 /\ d = 1
  /\ out = {} /\ last = NoChunk

\* On to item k.
Advance(k) ==
  /\ pc' = IF k > n THEN "done" ELSE "walk"
  /\ i' = k /\ to' = k
StartSplit == pc' = "split" /\ w' = 1 /\ cur' = 0 /\ UNCHANGED <<i, to, out, last>>
\* push_chunk_within_ceiling: items i..to in one chunk, or in pieces
Push == IF Count(i, to) <= Ceiling
        THEN /\ Emit(Chunk(i, to, {}, {}, Count(i, to))) /\ Advance(to + 1)
             /\ UNCHANGED <<w, cur>>
        ELSE StartSplit

\* The start of a window, a sentence too long for any, a group, or the code.
\* Mutant: a sentence too long for a window is never split.
Walk_Whole ==
  /\ pc = "walk"
  /\ IF block.kind # "code" /\ (block.kind = "table" \/ Count(i, i) <= EffectiveTarget)
     THEN pc' = "grow" /\ UNCHANGED <<i, to, w, cur, out, last>>
     ELSE /\ Emit(Chunk(i, to, {}, {}, Count(i, to))) /\ Advance(to + 1)
          /\ UNCHANGED <<w, cur>>
  /\ UNCHANGED <<block, back, c, d>>
Walk ==
  /\ pc = "walk"
  /\ IF \/ block.kind = "table"
        \/ block.kind = "paragraph" /\ Count(i, i) <= EffectiveTarget
     THEN pc' = "grow" /\ UNCHANGED <<i, to, w, cur, out, last>>
     ELSE Push
  /\ UNCHANGED <<block, back, c, d>>

\* One item more, while they stay within the target together; then the chunk.
Grow ==
  /\ pc = "grow"
  /\ IF to < n /\ Count(i, to + 1) <= GroupTarget
     THEN to' = to + 1 /\ UNCHANGED <<pc, i, back, w, cur, out, last>>
     ELSE IF block.kind = "table" THEN Push /\ UNCHANGED back
     ELSE /\ Emit(Chunk(i, to, {}, {}, Count(i, to)))
          /\ pc' = IF to = n THEN "done" ELSE "overlap"
          /\ back' = to /\ UNCHANGED <<i, to, w, cur>>
  /\ UNCHANGED <<block, c, d>>

\* One sentence more of the window for the next one, within its share.
Carried(f) == Count(f, to) * 100 <= Count(i, to) * Overlap
\* Mutant: the next window starts where the overlap does, even at this one's.
CarryBack_Stays ==
  /\ pc = "overlap"
  /\ IF back # i /\ Carried(back - 1)
     THEN back' = back - 1 /\ UNCHANGED <<pc, i, to>>
     ELSE Advance(back) /\ UNCHANGED back
  /\ UNCHANGED <<block, w, cur, c, d, out, last>>
\* Mutant: the next window starts past the sentence that did not fit.
CarryBack_Skips ==
  /\ pc = "overlap" /\ Advance(to + 2)
  /\ UNCHANGED <<block, back, w, cur, c, d, out, last>>
CarryBack ==
  /\ pc = "overlap"
  /\ IF back # i /\ Carried(back - 1)
     THEN back' = back - 1 /\ UNCHANGED <<pc, i, to>>
     ELSE /\ Advance(IF back > i THEN back ELSE i + 1)
          /\ UNCHANGED back
  /\ UNCHANGED <<block, w, cur, c, d, out, last>>

Piece(a, b) == Chunk(i, to, a..b, {}, Of(i, to, a, b))
Flush == IF cur = 0 THEN UNCHANGED <<out, last>> ELSE Emit(Piece(cur, w - 1))

\* split_to_ceiling: the next word joins the piece begun, or begins one, or is
\* cut itself.
Split ==
  /\ pc = "split" /\ w <= Len(Items(i, to))
  /\ LET from == IF cur = 0 THEN w ELSE cur IN
     IF Of(i, to, from, w) <= Ceiling
     THEN cur' = from /\ w' = w + 1 /\ UNCHANGED <<pc, c, d, out, last>>
     ELSE /\ Flush
          /\ IF Of(i, to, w, w) <= Ceiling
             THEN cur' = w /\ w' = w + 1 /\ UNCHANGED <<pc, c, d>>
             ELSE cur' = 0 /\ pc' = "chars" /\ c' = 1 /\ d' = 1 /\ UNCHANGED w
  /\ UNCHANGED <<block, i, to, back>>
SplitEnds ==
  /\ pc = "split" /\ w > Len(Items(i, to))
  /\ Flush /\ Advance(to + 1)
  /\ UNCHANGED <<block, back, w, cur, c, d>>

\* split_word_to_ceiling: one char more, while they stay within the ceiling.
SplitWord ==
  /\ pc = "chars"
  /\ LET size == Items(i, to)[w] IN
     IF d < size /\ Tokens(<<d - c + 2>>) <= Ceiling
     THEN d' = d + 1 /\ UNCHANGED <<pc, w, c, out, last>>
     ELSE /\ Emit(Chunk(i, to, {w}, c..d, Tokens(<<d - c + 1>>)))
          /\ c' = d + 1 /\ d' = d + 1
          /\ IF d < size THEN UNCHANGED <<pc, w>>
             ELSE pc' = "split" /\ w' = w + 1
  /\ UNCHANGED <<block, i, to, back, cur>>

Next == Walk \/ Grow \/ CarryBack \/ Split \/ SplitEnds \/ SplitWord
Spec == Init /\ [][Next]_vars

-----------------------------------------------------------------------------
\* The state of the module.
TypeOK ==
  /\ block \in Blocks
  /\ pc \in {"walk", "grow", "overlap", "split", "chars", "done"}
  /\ {i, to, back, w, c, d} \subseteq Nat \ {0} /\ cur \in Nat

\* No chunk is more than the embedder takes, whatever the block, the config and
\* the tokenizer, but for a single char ("the ceiling is enforced pack-wide").
WithinCeiling ==
  \A k \in out : k.tokens <= Ceiling \/ \E x \in k.chars : k.chars = {x}

\* Nothing is lost: once the block is cut, every char of every word of every
\* item is in a chunk.
CharHeld(f, t, j, x) ==
  \E k \in out : /\ k.from = f /\ k.to = t /\ j \in k.words
                 /\ k.chars = {} \/ x \in k.chars
WordHeld(f, t, j) == \A x \in 1..Items(f, t)[j] : CharHeld(f, t, j, x)
Whole(f, t) == \E k \in out : k.from = f /\ k.to = t /\ k.words = {}
ItemHeld(k) ==
  \E f \in 1..k, t \in k..n :
    Whole(f, t) \/ \A j \in 1..Len(Items(f, t)) : WordHeld(f, t, j)
NothingLost == pc = "done" => \A k \in 1..n : ItemHeld(k)

=============================================================================
