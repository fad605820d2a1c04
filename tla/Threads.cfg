CONSTANTS
  MaxR = 9
  Hosts = {"plain", "caught"}
  Instructions = {"word", "call", "does", "execute", "catch", "exit", ">r", "2>r", "r>", "2r>", "throw", "abort", "quit", "does full"}
  Uncaught = {"word", "call", "does", "execute", "catch", "exit", ">r", "2>r", "r>", "2r>", "throw"}
SPECIFICATION Spec
INVARIANTS
  ThreadsInv
PROPERTIES
  ImplementsCallStack
  CaughtInstructionsEnd
