SPECIFICATION Spec
CONSTANTS
  Processes = {p1}
  Invocations <- MCInvocations
  Storages <- MCStorages
  Directories <- MCDirectories
  Files <- MCFiles
  Users = {1, 2}
  Typed = {1}
  MaxRotations = 1
INVARIANTS OnlyForItsUser
CHECK_DEADLOCK FALSE
