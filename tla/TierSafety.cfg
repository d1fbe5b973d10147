CONSTANTS
  Tiers = {"low", "high"}
  NoTier = "none"
  Perpetual = Perpetual
  Absent = Absent
  Cooldown = 2
  MaxTime = 2
SPECIFICATION Spec
CONSTRAINT BeforeRace
INVARIANTS
  LimitKept
  ServesSelection
PROPERTIES
  SweepKeepsInUse
