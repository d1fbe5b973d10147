SPECIFICATION GSpec
CONSTANTS
  OpenTag <- MCOpenTag
  CloseTag <- MCCloseTag
  Blanks = {"n"}
  Newline = "n"
  Wide = {"e"}
  Pieces <- MCWidePieces
  MaxTokens = 4
  MaxSpoken = 6
INVARIANT EndsInOrder
CHECK_DEADLOCK FALSE
