CONSTANTS
  W = 4
  Operands <- AllCells
  Bases <- SomeBases
  Texts <- ShortTexts
  Rooms = {0, 1, 3, 9}
  Initials = {0}
  Days <- SomeDays
SPECIFICATION NumericSpec
INVARIANTS
  ResultsAreExact
  LoopsEndAtTheLimit
  NumbersAreSpelled
  PrintedNumbersReadBack
  DatesAreCivil
