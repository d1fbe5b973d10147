SPECIFICATION CoreSpec
CONSTANTS
  PDFs <- MCPDFs
  MaxScanned = 2
  Patience = 2
  Formats = {"md", "html", "epub", "docx", "text"}
  Levels = {1, 2, 3}
  MaxTexts = 4
  MaxHeads = 3
  MaxDepth = 2
  Beyond = {}
  Texts <- MCTexts
  Letters <- MCLetters
  Abbreviations <- MCAbbreviations
  Blocks <- MCBlocks
  Text <- MCText
  Tokens <- MCTokens
  Target = 4
  Ceiling = 6
  Overlap = 50
  Sources <- MCSources
  Embedders = {"old", "same", "new"}
  Dims <- MCDims
  Foreign <- MCForeign
  MaxUpdates = 1
  Queries <- MCQueries
  TierN = 2
  KRrf = 60
  GateRank = 2
  Fetches = {"f", "g"}
  MaxVersion = 3
  Loader = {"a", "b"}
  Embedding = {"e"}
  Disks <- MCDisks
  Pinned = {"base", "contract"}
  Requests <- MCRequests
  MaxChanges = 2
  LoadBeyond = {}
  OpenTag <- MCOpenTag
  CloseTag <- MCCloseTag
  Blanks = {"n"}
  Newline = "n"
  Wide = {}
  Pieces <- MCPieces
  MaxTokens = 4
  MaxSpoken = 5
  Expressions <- MCExpressions
  FnNames = {"sqrt"}
  MaxNesting = 4
  MaxExprLen = 5
  Shelf = {1, 2}
  Zones <- MCZones
  DayLength = 2
  MaxInstant = 3
  MaxNotes = 3
  Cites <- MCCites
INVARIANTS ScanIsWhole  UnderItsHeadings SentencesWhole WithinCeiling  PackRoundTrip EachPackHeard LoadedAsDeclared OnlyVisible CalcMeansIt ReadsLikeALog
PROPERTIES Finishes 
CHECK_DEADLOCK FALSE
