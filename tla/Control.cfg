CONSTANTS
  MaxWords = 7
  MaxDepth = 6
  LeaveAnywhere = FALSE
  Mismatched = FALSE
SPECIFICATION ControlSpec
INVARIANTS
  ControlInv
  PathsAreBalanced
