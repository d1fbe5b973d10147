---------------------------- MODULE MCTokenStream ----------------------------
(* Tags of two letters that begin alike, and tokens of up to two of those letters,
   of white space, or of a letter that takes two bytes. *)
EXTENDS TokenStream
MCOpenTag == <<"<", "o">>
MCCloseTag == <<"<", "c">>
MCPieces == BoundedSeq({"<", "o", "c", "n"}, 2)
MCWidePieces == BoundedSeq({"<", "o", "c", "e"}, 2)
=============================================================================
