CONSTANTS
  a = a
  b = b
  m = m
  c1 = c1
  c2 = c2
  NoUser = NoUser
  NoCall = NoCall
  User <- MCUser
  Model <- MCModel
  Call <- MCCall
  Wants <- MCWants
  Beyond <- Nothing
SYMMETRY Sym
SPECIFICATION Spec
INVARIANTS ShownIsOwn 
PROPERTIES GrantsKept
