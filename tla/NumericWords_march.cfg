CONSTANTS
  W = 4
  Operands = {}
  Bases = {}
  Texts = {}
  Rooms = {}
  Initials = {}
  Days <- SomeDays
SPECIFICATION NumericSpec
INVARIANT TimeAndDateIsCivil
