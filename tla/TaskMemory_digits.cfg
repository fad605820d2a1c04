CONSTANTS
  Base = 8
  Sizes <- SmallSizes
  CELL = 2
  TASK = 12
  TASK_MIN_SZ = 40
  PNO_MIN_SZ = 10
  Modulus = 1024
  MaxDigits = 4
  MaxLen = 6
SPECIFICATION Spec
PROPERTY
  WritesFreeMemory
