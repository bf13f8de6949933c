\* Violated: one response, polled by a handler while its goroutine lets it go.
CONSTANTS
  r1 = r1
  h1 = h1
  Requests = {r1}
  Handlers = {h1}
  MaxBody = 2
  MaxChunks = 2
SPECIFICATION Spec
INVARIANTS OnlyNewBytes
CHECK_DEADLOCK FALSE
