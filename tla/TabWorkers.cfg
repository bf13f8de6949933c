\* Workers: three spawns, for either of two profiles, and a restart of the main
\* process.  Login: two launches for two origins, one of which keeps no token, and
\* two saves, logins or navigations of others.  Resume: an answer read in six
\* cycles, of which two without a change, or without a text, end it.
CONSTANTS
  p1 = p1
  p2 = p2
  Profiles = {p1, p2}
  WithIdentity = {p1}
  MaxSpawns = 3
  MaxRestarts = 1
  Origins = {"zai", "auth"}
  StartOrigin = "zai"
  Tokenless = {"auth"}
  Owners = {"a", "b"}
  Saves <- MCSaves
  MaxLaunches = 2
  MaxUses = 2
  ShortLen = 1
  StableCycles = 2
  MissedCycles = 2
  MaxCycles = 6
  LongestText = 3
  MaxRaises = 2
SPECIFICATION TabSpec
INVARIANTS TypeOK WorkersAccountedFor AutoScreen
PROPERTIES SpawnReturns DeadEntriesGo LoginAsSaved LoginEnds QueueIsReached
CHECK_DEADLOCK FALSE
