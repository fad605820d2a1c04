CONSTANTS
  MaxHere = 5
  MaxDepth = 2
  NestedColon = TRUE
  DefinesWhileOpen = FALSE
SPECIFICATION Spec
INVARIANTS
  FoundWordsRun
