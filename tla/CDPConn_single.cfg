\* Violated: two calls of send, on a Client whose connection may fail once at any point;
\* both may time out and reconnect at once.
CONSTANTS
  a = a
  b = b
  Calls = {a, b}
  First = First
  None = None
  ReplyKinds = {"result", "retryable error"}
  MaxFaults = 1
SPECIFICATION Spec
INVARIANTS SingleSocket
CHECK_DEADLOCK FALSE
