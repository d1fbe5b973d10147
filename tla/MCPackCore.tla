----------------------------- MODULE MCPackCore -----------------------------
EXTENDS PackCore, MCTokenStream, FiniteSetsExt

\* PDFs of up to three pages.
MCPDFs == BoundedSeq({"text", "image"}, 3)

\* Three sources, one of them empty; an app whose next version brings another
\* embedder, of the same width or not; and files of other devices and curators:
\* of either embedder, unsigned, of a newer app, corrupt, incomplete.
MCSources == <<2, 0, 1>>
MCDims(e) == IF e = "new" THEN 2 ELSE 1
File(e, tier) ==
  [width |-> MCDims(e), dims |-> MCDims(e), docs |-> <<1>>,
   chunks |-> <<[doc |-> 1, nth |-> 1]>>, fts |-> <<1>>,
   vec |-> <<[chunk |-> 1, by |-> e]>>, keys |-> AllKeys, tier |-> tier,
   embedder |-> e, schema |-> "ours", signed |-> tier = "curated"]
MCForeign ==
  {File(e, t) : e \in {"old", "new"}, t \in {"personal", "curated"}} \cup
  {[File("old", "curated") EXCEPT !.signed = FALSE],
   [File("old", "personal") EXCEPT !.schema = "newer"],
   [File("old", "personal") EXCEPT !.dims = 2],
   [File("old", "personal") EXCEPT !.keys = {"embedder"}, !.vec = <<>>]}

\* Blocks of up to four items, and a tokenizer whose counts are no sum.
Item == {<<1>>, <<2>>, <<1, 2>>, <<5>>, <<3, 3, 2>>, <<1, 9>>}
Header == <<1>>
MaxItems == 4
Block == [kind : {"paragraph", "table"}, items : BoundedSeq(Item, MaxItems)]
           \cup [kind : {"code"}, items : {<<s>> : s \in Item}]
MCBlocks ==
  {[kind |-> b.kind, n |-> Len(b.items), items |-> b.items] : b \in Block}
MCText(b, f, t) ==
  (IF b.kind = "table" THEN Header ELSE <<>>)
    \o FlattenSeq(SubSeq(b.items, f, t))
MCTokens(s) ==
  FoldSeq(LAMBDA x, y : x + y, 0, s)
    + Cardinality({k \in 1..(Len(s) - 1) : (s[k] + s[k + 1]) % 2 = 1})

\* Paragraphs of up to five chars, and an abbreviation of two letters.
MCLetters == {"a", "b"}
MCTexts == BoundedSeq(MCLetters \cup {".", "!", " "}, 5) \ {<<>>}
MCAbbreviations == {<<"a", "b">>}

\* Two packs of three chunks, two of which a lane returns.
ChunkId == 1..3
Fanout == 2
Near(cos) == LET all == SetToSortSeq(ChunkId,
                          LAMBDA x, y : \/ cos[x] > cos[y]
                                        \/ (cos[x] = cos[y] /\ x < y))
             IN SubSeq(all, 1, Fanout)
Lanes == {s \in BoundedSeq(ChunkId, Fanout) : IsInjective(s)}
Pack(tier, cos, lexical, key, docs) ==
  [tier |-> tier, floor |-> 60, margin |-> 10, dense |-> Near(cos),
   lexical |-> lexical, cos |-> cos, key |-> key, docs |-> docs]
First == {Pack(tier, cos, lexical, key, docs) :
            tier \in {"personal", "curated"}, cos \in [ChunkId -> {20, 40, 70}],
            lexical \in Lanes,
            key \in {<<"a", "a", "b">>, <<"a", "b", "c">>, <<"a", "b">>},
            docs \in {{"a", "b", "c"}, {"b", "c"}}}
Second == {Pack(tier, cos, <<3>>, key, {"a", "b"}) :
             tier \in {"personal", "curated"},
             cos \in {<<70, 20, 20>>, <<40, 20, 40>>},
             key \in {<<"a", "b", "b">>, <<"a", "a", "a">>}}
MCQueries == {<<>>} \cup {<<p, o>> : p \in First, o \in Second}

\* A stack that is whole, one with another contract adapter and one without voice;
\* adapters asked for out of order, and one asked for twice.
AllGenuine == [a \in Artifact |-> "genuine"]
MCDisks == {AllGenuine, [AllGenuine EXCEPT !["contract"] = "other"],
            [AllGenuine EXCEPT !["voice"] = "none"]}
MCRequests == {<<"voice", "contract", "behavioral">>, <<"contract", "contract">>}

\* Expressions of up to five tokens. "-30 deg deg" is left out: the parser takes
\* the second deg for the sum that the sign begins, and refuses "30 deg deg".
MCExpressions ==
  {s \in BoundedSeq({"num", "sqrt", "-", "/", "^", "(", ")", "deg"}, 5) :
     s # <<>> /\ ~\E k \in 1..(Len(s) - 1) : s[k] = "deg" /\ s[k + 1] = "deg"}
\* A clock that is set an hour back and on again, days of two hours, and an
\* answer one of whose citations has no number.
MCZones == {-1, 0}
MCCites == {<<1, 0, 2>>}
=============================================================================
