CONSTANTS
  get = get
  tier = tier
  base = base
  adapter = adapter
  Artifacts = {base, adapter}
  NoFile = NoFile
  NoFlow = NoFlow
  NoArtifact = NoArtifact
  Flows = {get}
  Needs <- PairNeeds
  Minted = {base}
  Size = 2
  Limit = 3
SPECIFICATION FairSpec
INVARIANTS
  InstalledIsGenuine
PROPERTIES
  EveryDownloadEnds
  
