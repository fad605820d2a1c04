CONSTANTS
  Letters <- SomeLetters
  Programs <- SomePrograms
  BufferSize = 9
  CountedMax = 2
  ReadsFail = TRUE
SPECIFICATION InputSpec
INVARIANTS
  InputInv
  ChosenWordsAreExecuted
  LatestStringsAreKept
PROPERTIES
  SkippingEnds
