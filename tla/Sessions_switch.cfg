\* Only switches, each when the request before has returned: a profile after another.
CONSTANTS
  i1 = i1  i2 = i2  n1 = n1  n2 = n2  a = a  b = b
  NoOne = NoOne
  Ids = {i1, i2}
  Names = {n1, n2}
  Accounts = {a, b}
  Candidates <- MCCandidates
  Threads = {1, 2}
  Stores <- MCStores
  Requests = {"switch"}
  MaxRequests = 3
  MaxTogether = 2
  MaxLogins = 0
  MaxFaults = 0
SPECIFICATION Spec
INVARIANTS CleanSlate
CHECK_DEADLOCK FALSE
