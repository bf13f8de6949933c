\* Violated: a profile whose worker is spawned twice, by one main process.
CONSTANTS
  p1 = p1
  Profiles = {p1}
  WithIdentity = {p1}
  MaxSpawns = 2
  MaxRestarts = 0
  Origins = {"zai", "auth"}
  StartOrigin = "zai"
  Tokenless = {"auth"}
  Owners = {"a", "b"}
  Saves <- MCSaves
  MaxLaunches = 0
  MaxUses = 0
  ShortLen = 1
  StableCycles = 2
  MissedCycles = 2
  MaxCycles = 6
  LongestText = 3
  MaxRaises = 2
SPECIFICATION TabSpec
INVARIANTS OneBridgePerProfile
CHECK_DEADLOCK FALSE
