\* Violated: one call with parameters, on the loaded page.
CONSTANTS
  r1 = r1
  h1 = h1
  Requests = {r1}
  Handlers = {h1}
  MaxBody = 1
  MaxChunks = 1
  c1 = c1
  c2 = c2
  Calls = {c1}
  Served = {"state", "click"}
  HasToken = TRUE
  MaxMoves = 1
  Hosts = {h1}
  Fetches = {}
  Keepers = {}
  MaxRequests = 0
  MaxProcesses = 1
SPECIFICATION AgentSpec
INVARIANTS PageCallsBack
CHECK_DEADLOCK FALSE
