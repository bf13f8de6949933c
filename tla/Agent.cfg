\* Bodies: one response, its goroutine and one handler at a time; commands may
\* fail and the connection may be replaced.  Scripts: two calls out of one of
\* each kind of route, on a page that goes and comes back.  Cookies: four requests,
\* one at a time to one of two hosts, two at a time to the jar, and one restart.
CONSTANTS
  r1 = r1
  h1 = h1
  Requests = {r1}
  Handlers = {h1}
  MaxBody = 3
  MaxChunks = 3
  c1 = c1
  c2 = c2
  Calls = {c1, c2}
  Served = {"state", "click", "networkEnable", "wait", "breakthrough"}
  HasToken = TRUE
  MaxMoves = 2
  h2 = h2
  p1 = p1
  k1 = k1
  k2 = k2
  Hosts = {h1, h2}
  Fetches = {p1}
  Keepers = {k1, k2}
  MaxRequests = 4
  MaxProcesses = 2
SPECIFICATION AgentSpec
INVARIANTS TypeOK NoBytesSkipped AnswersReachTheirCall OneAnswerEach OnlyEarlyCallsLeak
INVARIANTS OneJar NoCookieUnsaved FileStaysWhole
PROPERTIES HeldResponsesContinue CallbacksReturn EveryCallIsAnswered
CHECK_DEADLOCK FALSE
