CONSTANTS
  Watchdogs = {w1, w2, w3}
  Servers = {s1, s2, s3}
  Callers = {c1, c2}
  Tiers = {t1, t2}
  NoServer = NoServer
  NoTier = NoTier
  NoCaller = NoCaller
  ForceCPU = FALSE
  CrashLimit = 3
SPECIFICATION Spec
SYMMETRY Symmetry
CONSTRAINT BeforeOverlap
INVARIANTS
  OneWatchdog
  
  TeardownReaps

  
