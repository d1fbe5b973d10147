SPECIFICATION DSpec
CONSTANTS
  Formats = {"md", "html", "epub", "docx", "text"}
  Levels = {1, 2}
  MaxTexts = 3
  MaxHeads = 2
  MaxDepth = 2
  Beyond = {"nested"}
INVARIANT NothingDropped
CHECK_DEADLOCK FALSE
