SPECIFICATION FairSpec
CONSTANTS
  Clients = {c1, c2, c3}
  Limit = 2
  Refusals = {7}
  Failing = {"ConnectionRefused"}
  MaxLink = 1
INVARIANTS PermitsKept RepliesAreTrue NothingOutlivesServe
PROPERTIES ServeReturns ClientSettled
CHECK_DEADLOCK FALSE
