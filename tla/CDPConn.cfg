\* Two calls of send, on a Client whose connection may fail once at any point;
\* both may time out and reconnect at once, and both must return.
CONSTANTS
  a = a
  b = b
  Calls = {a, b}
  First = First
  None = None
  ReplyKinds = {"result"}
  MaxFaults = 1
SPECIFICATION FairSpec
INVARIANTS NoSenderBlocks RepliesReachTheirCommand PendingHasItsWaiter NoWaiterForgotten
PROPERTIES ServesCalls LostForGood EveryCallReturns
CHECK_DEADLOCK FALSE
