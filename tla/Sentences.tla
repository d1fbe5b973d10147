----------------------------- MODULE Sentences -----------------------------
(* How kpack-core cuts a paragraph into sentences (chunk.rs, split_sentences):
   at a terminator before a space or the end, unless it is the dot of an
   abbreviation or of an initialism. One action is one turn of its loop. *)
EXTENDS Integers, Sequences

CONSTANTS
  Texts,          \* the paragraphs: sequences of chars
  Letters,        \* the alphanumeric chars
  Abbreviations   \* the list of words, as sequences of chars
ASSUME SentencesAssumption == \A t \in Texts : Len(t) \in Nat

VARIABLES
  text,  \* the paragraph
  pos,   \* the char looked at
  from,  \* where the sentence begins
  said   \* the sentences: the chars each runs from and to, untrimmed
svars == <<text, pos, from, said>>

SInit == text \in Texts /\ pos = 1 /\ from = 1 /\ said = {}

Is(k, chars) == k \in 1..Len(text) /\ text[k] \in chars
Alnum(k) == Is(k, Letters)
Space(k) == Is(k, {" "})

\* The word the terminator at k is attached to is the chars w..k-1.
WordBefore(k, w) == w <= k /\ (\A j \in w..(k - 1) : Alnum(j)) /\ ~Alnum(w - 1)
Abbreviation(k) ==
  \E w \in 1..k : WordBefore(k, w) /\ SubSeq(text, w, k - 1) \in Abbreviations

\* X.Y. : a char alone between dots, twice; what is before them does not count.
Alone(k) == Alnum(k - 1) /\ ~Alnum(k - 2)
Initialism(k) == Alone(k) /\ Is(k - 2, {"."}) /\ Alone(k - 2)

\* A sentence ends here.
Ends(k) == /\ Is(k, {".", "!"}) /\ (k = Len(text) \/ Space(k + 1))
           /\ ~(Is(k, {"."}) /\ (Abbreviation(k) \/ Initialism(k)))

\* push_trimmed: nothing is kept of spaces alone.
Said(f, t) == IF \E k \in f..t : ~Space(k) THEN said \cup {<<f, t>>} ELSE said

Pass == /\ pos <= Len(text) /\ ~Ends(pos) /\ pos' = pos + 1
        /\ UNCHANGED <<text, from, said>>
\* The next sentence begins past the spaces.
NextWord(j) == /\ j \in (pos + 1)..(Len(text) + 1) /\ ~Space(j)
               /\ \A k \in (pos + 1)..(j - 1) : Space(k)
\* Mutant: the next sentence begins one char late.
CutSentence_Late ==
  /\ pos <= Len(text) /\ Ends(pos)
  /\ said' = Said(from, pos)
  /\ \E j \in (pos + 1)..(Len(text) + 1) : NextWord(j) /\ pos' = j + 1 /\ from' = j + 1
  /\ UNCHANGED text
CutSentence ==
  /\ pos <= Len(text) /\ Ends(pos)
  /\ said' = Said(from, pos)
  /\ \E j \in (pos + 1)..(Len(text) + 1) : NextWord(j) /\ pos' = j /\ from' = j
  /\ UNCHANGED text
Remainder ==
  /\ pos = Len(text) + 1
  /\ said' = (IF from <= Len(text) THEN Said(from, Len(text)) ELSE said)
  /\ pos' = pos + 1 /\ UNCHANGED <<text, from>>

SNext == Pass \/ CutSentence \/ Remainder
SSpec == SInit /\ [][SNext]_svars

-----------------------------------------------------------------------------
\* Once the paragraph is cut, every char but the spaces between sentences is in
\* just one of them, and none runs past an end or stops short of one.
SentencesWhole ==
  pos > Len(text) + 1 =>
    /\ \A k \in 1..Len(text) : \/ Space(k)
                               \/ \E s \in said : k \in s[1]..s[2]
    /\ \A s \in said, r \in said : s[2] < r[1] \/ r[2] < s[1] \/ s = r
    /\ \A s \in said : /\ s[2] = Len(text) \/ Ends(s[2])
                       /\ \A k \in s[1]..(s[2] - 1) : ~Ends(k)
=============================================================================
