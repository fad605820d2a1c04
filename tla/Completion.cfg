CONSTANTS
  Builtins <- SomeBuiltins
  Names <- SomeNames
  Characters = {"a", "b", "A", "B", " "}
  Typed = {"a", "b", " "}
  LongestPrefix = 2
  MaxLine = 3
  MaxWords = 4
SPECIFICATION CompletionSpec
INVARIANTS
  CompletionInv
PROPERTIES
  ImplementsSuggestions
