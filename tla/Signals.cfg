CONSTANTS
  MaxNest = 3
  Calls = {"accept", "key", "keyq"}
SPECIFICATION Spec
INVARIANTS
  SignalsInv
  SignalsAreUnblocked
PROPERTIES
  NoJumpOutOfInput
  NotedIsReported
CHECK_DEADLOCK FALSE
