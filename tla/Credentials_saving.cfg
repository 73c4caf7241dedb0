SPECIFICATION FairSpec
CONSTANTS
  Processes = {p1}
  Invocations <- MCInvocations
  Storages <- MCStorages
  Directories <- MCDirectories
  Files <- MCFiles
  Users = {1, 2}
  Typed = {1}
  MaxRotations = 1
INVARIANTS SavedWereAccepted NoNeedlessAccess AllResolvable
PROPERTIES SavedOnRequestOnly ReplacedEventually
CHECK_DEADLOCK FALSE
