\* Violated: one message in a chat with one answer, answered without any error.
CONSTANTS
  OldAnswers = 1
  Kinds = {"answer"}
  Nested = 1
  HashLen = 1
  StablePolls = 1
  MaxPolls = 3
  MaxTries = 1
  MaxSends = 1
  MaxLen = 2
  MaxFails = 0
SPECIFICATION Spec
INVARIANTS OnlyNewResponses
CHECK_DEADLOCK FALSE
