CONSTANTS
  W = 8
  CellSize = 2
  StackSize = 6
  SignedFrom = 128
  MaxItems = 2
  Variables <- SomeVariables
  Stacks <- SomeStacks
  Words <- AllWords
  Numbers = {0, 3, 4, 253}
  Texts <- SomeTexts
SPECIFICATION FairSpec
INVARIANTS
  CodeInv
  StackIsInBounds
PROPERTIES
  ImplementsProgram
  DefinitionsEnd
CHECK_DEADLOCK FALSE
