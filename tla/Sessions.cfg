\* Three requests, one after the other or two at once, one login, one failure.
CONSTANTS
  i1 = i1  i2 = i2  n1 = n1  n2 = n2  a = a  b = b
  NoOne = NoOne
  Ids = {i1, i2}
  Names = {n1, n2}
  Accounts = {a, b}
  Candidates <- MCCandidates
  Threads = {1, 2}
  Stores <- MCStores
  Requests <- Ops
  MaxRequests = 3
  MaxTogether = 2
  MaxLogins = 1
  MaxFaults = 1
SPECIFICATION FairSpec
INVARIANTS TypeOK StoreReliable AccountsApart
PROPERTIES Implements EveryRequestEnds
CHECK_DEADLOCK FALSE
