----------------------------- MODULE TokenStream -----------------------------
(* One turn of the in-process engine (kpack-engine): a session on the loaded
   model, the prompt, and then token by token until the model ends the turn, the
   limit is reached, the caller's sink breaks off or llama.cpp fails. A model
   that thinks aloud opens its turn with a <think> block, which ThinkStripper
   keeps from the sink, however the tokens cut the tags. A text is a sequence of
   letters; the tags are two short ones that begin alike. *)
EXTENDS Integers, Sequences, SequencesExt

CONSTANTS
  OpenTag, CloseTag,   \* THINK_OPEN, THINK_CLOSE
  Blanks, Newline,     \* the letters that are white space, one is the newline
  Wide,                \* the letters of two bytes
  Pieces,              \* the texts of a token
  MaxTokens,           \* sampling.max_tokens
  MaxSpoken            \* bound: letters the model generates
ASSUME StreamAssumption ==
  /\ OpenTag # <<>> /\ CloseTag # <<>> /\ OpenTag # CloseTag
  /\ Newline \in Blanks /\ Range(OpenTag) \cap Blanks = {}
  /\ Wide \cap (Range(CloseTag) \cup Blanks) = {}
  /\ \A t \in {OpenTag, CloseTag} \cup Pieces : t \in Seq(Range(t))
  /\ MaxTokens \in Nat /\ MaxSpoken \in Nat

VARIABLES
  gen,        \* where the turn is, in the end its StopReason, "error" or "panic"
  strips,     \* does the model's template strip
  strip,      \* StripState
  buffer,     \* what the stripper holds back
  generated,  \* tokens so far
  spoken,     \* history: all that the model generated
  shown       \* what the sink was given
genvars == <<gen, strips, strip, buffer, generated, spoken, shown>>

GInit ==
  /\ gen = "loaded" /\ strips \in BOOLEAN
  /\ strip = (IF strips THEN "deciding" ELSE "pass") /\ buffer = <<>>
  /\ generated = 0 /\ spoken = <<>> /\ shown = <<>>
Stopped == gen \in {"eos", "max_tokens", "cancelled", "error", "panic"}

-----------------------------------------------------------------------------
(* ThinkStripper *)

From(t, n) == SubSeq(t, n, Len(t))
TrimStart(t) ==
  LET n == CHOOSE n \in 1..(Len(t) + 1) :
             /\ n <= Len(t) => t[n] \notin Blanks
             /\ \A m \in 1..(n - 1) : t[m] \in Blanks
  IN From(t, n)

TagAt(t, tag, n) == IsPrefix(tag, From(t, n))
Has(t, tag) == \E n \in DOMAIN t : TagAt(t, tag, n)
After(t, tag) ==
  LET n == CHOOSE n \in DOMAIN t : TagAt(t, tag, n)
             /\ \A m \in 1..(n - 1) : ~TagAt(t, tag, m)
  IN From(t, n + Len(tag))

\* The longest end of t with which the tag may begin.
\* Mutant: nothing is kept, so a tag that two tokens share is missed.
PartialSuffix_None(t, tag) == <<>>
PartialSuffix(t, tag) ==
  LET n == CHOOSE n \in 1..(Len(t) + 1) :
             /\ IsPrefix(From(t, n), tag)
             /\ \A m \in 1..(n - 1) : ~IsPrefix(From(t, m), tag)
  IN From(t, n)

\* It is looked for by bytes, from as many as the tag has: str's slice panics
\* when one of the cuts is inside a letter.
Bytes(t) == Len(t) + Len(SelectSeq(t, LAMBDA x : x \in Wide))
CutsLetter(t, tag) ==
  \E n \in DOMAIN t : t[n] \in Wide /\ Bytes(From(t, n + 1)) < Len(tag)

BreaksLine(t) == t # <<>> /\ Head(t) = Newline
Withheld(state, b) == [state |-> state, buffer |-> b, out |-> <<>>]
Passes(t) == [state |-> "pass", buffer |-> <<>>, out |-> t]

\* Nothing of a block is shown, nor the newline that follows it at once.
ConsumeInside(b) ==
  IF ~Has(b, CloseTag)
  THEN Withheld(IF CutsLetter(b, CloseTag) THEN "panic" ELSE "inside",
            PartialSuffix(b, CloseTag))
  ELSE LET after == After(b, CloseTag)
       IN Passes(IF BreaksLine(after) THEN Tail(after) ELSE after)

\* Does the turn open with a block? White space before it goes with it.
Decide(b) ==
  LET t == TrimStart(b)
  IN IF IsPrefix(OpenTag, t) THEN ConsumeInside(From(t, Len(OpenTag) + 1))
     ELSE IF IsPrefix(t, OpenTag) THEN Withheld("deciding", b)
     ELSE Passes(b)

PushPiece(piece) ==
  IF strip = "pass" THEN Passes(piece)
  ELSE IF strip = "deciding" THEN Decide(buffer \o piece)
  ELSE ConsumeInside(buffer \o piece)

-----------------------------------------------------------------------------
(* LlamaHandle::session and LlamaSession::stream *)

\* The context, the adapters applied to it in their order, and the template
OpenSession(fails) ==
  /\ gen = "loaded" /\ gen' = IF fails THEN "error" ELSE "session"
  /\ UNCHANGED <<strips, strip, buffer, generated, spoken, shown>>

\* The chat as the template renders it, tokenized and decoded at once
Prompt(fails) ==
  /\ gen = "session" /\ gen' = IF fails THEN "error" ELSE "sample"
  /\ UNCHANGED <<strips, strip, buffer, generated, spoken, shown>>

\* An end-of-generation token is neither counted nor shown.
EndOfTurn ==
  /\ gen = "sample" /\ gen' = "eos"
  /\ UNCHANGED <<strips, strip, buffer, generated, spoken, shown>>

\* A token: the stripper, the sink, which may break off, the limit, and the
\* decoding of the token for the next one.
Token(piece, breaks, fails) ==
  /\ gen = "sample" /\ Len(spoken) + Len(piece) <= MaxSpoken
  /\ LET pushed == PushPiece(piece)
     IN /\ strip' = pushed.state /\ buffer' = pushed.buffer
        /\ shown' = shown \o pushed.out
        /\ breaks => pushed.out # <<>>
  /\ generated' = generated + 1 /\ spoken' = spoken \o piece
  /\ gen' = IF strip' = "panic" THEN "panic"
            ELSE IF breaks THEN "cancelled"
            ELSE IF generated' >= MaxTokens THEN "max_tokens"
            ELSE IF fails THEN "error" ELSE "sample"
  /\ UNCHANGED strips

GNext ==
  \/ \E fails \in BOOLEAN : OpenSession(fails) \/ Prompt(fails)
  \/ \E piece \in Pieces, breaks \in BOOLEAN, fails \in BOOLEAN :
       Token(piece, breaks, fails)
  \/ EndOfTurn
GSpec == GInit /\ [][GNext]_genvars

-----------------------------------------------------------------------------
\* The sink has been given the turn as it would be stripped whole: all of it but
\* a block that it opens with, whatever the tokens cut the tags into. The newline
\* after the block may stay (it does if it comes with a later token), and what
\* could still be the beginning of a block is held back.
Stripped(t) ==
  LET text == TrimStart(t)
      rest == From(text, Len(OpenTag) + 1)
  IN IF ~strips THEN {t}
     ELSE IF IsPrefix(text, OpenTag) /\ text # OpenTag THEN {<<>>}
     ELSE IF ~IsPrefix(OpenTag, text) THEN {t}
     ELSE IF ~Has(rest, CloseTag) THEN {<<>>}
     ELSE LET after == After(rest, CloseTag)
          IN {after} \cup {u \in {From(after, 2)} : BreaksLine(after)}
OnlyVisible == shown \in Stripped(spoken)

\* A turn ends as EngineSession::stream says it may: with the model's token, at
\* the limit, by the sink, or with an error that the caller is given.
EndsInOrder == gen # "panic"
=============================================================================
