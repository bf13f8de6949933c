\* One message in a chat with one answer; z.ai may refuse it once in every way.
CONSTANTS
  OldAnswers = 1
  Kinds = {"answer", "limit", "quota", "sandbox", "busy"}
  Nested = 1
  HashLen = 1
  StablePolls = 2
  MaxPolls = 3
  MaxTries = 1
  MaxSends = 2
  MaxLen = 2
  MaxFails = 1
SPECIFICATION FairSpec
INVARIANTS TypeOK ScreenIsWhatWasSent
PROPERTIES KeepsContract EveryAnswerEnds
CHECK_DEADLOCK FALSE
