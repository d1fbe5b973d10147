CONSTANTS
  a = a
  b = b
  f = f
  NoUser = NoUser
  User <- MCUser
  Folder <- MCFolder
  Filer <- MCFiler
  MaxChat = 2
  MaxConv = 2
  MaxCmd = 2
  Beyond <- Nothing
SPECIFICATION Spec
INVARIANTS TurnsStay IndexMatches RenameWins WipedIsGone
PROPERTIES KeptUntilDeleted
