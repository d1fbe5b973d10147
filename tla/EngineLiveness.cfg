CONSTANTS
  Watchdogs = {w1}
  Servers = {s1, s2}
  Callers = {c1, c2}
  Tiers = {t1}
  NoServer = NoServer
  NoTier = NoTier
  NoCaller = NoCaller
  ForceCPU = FALSE
  CrashLimit = 3
SPECIFICATION FairSpec
CONSTRAINT BeforeOverlap
PROPERTIES
  RestartReturns
  Settles
