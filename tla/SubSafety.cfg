CONSTANTS
  Users = {u1}
  Sessions = {s1}
  Handlers = {h1, h2}
  Null = Null
  NoSession = NoSession
  Period = 1
  MaxHour = 2
SPECIFICATION FairSpec
CHECK_DEADLOCK FALSE
PROPERTIES
  AccessAsPaid
  PaidGetsAccess
