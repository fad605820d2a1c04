CONSTANTS
  MaxHere = 5
  MaxDepth = 2
  NestedColon = FALSE
  DefinesWhileOpen = FALSE
SPECIFICATION Spec
INVARIANTS
  CompilerInv
  FoundWordsRun
PROPERTIES
  DefinitionsAreTransactions
